---- MODULE Spec2Model ----
(***************************************************************************)
(* Model of the messaging application (Django-signals_orm-0x04/messaging): *)
(* the Message / Notification / MessageHistory tables, the three signal    *)
(* receivers of signals.py, Model.save / objects.create / User.delete as   *)
(* Django executes them around those receivers, and the read side          *)
(* (get_thread, the unread manager, the cached inbox view). Two further     *)
(* specifications let single writes fail with a database error.            *)
(* The other applications of the repository follow, each with its own      *)
(* state and specifications: RateLimitMiddleware (Django-Middleware-0x03), *)
(* the decorators retry_on_failure, cache_query, transactional and         *)
(* with_db_connection (python-decorators-0x01), the context managers       *)
(* (python-context-async-perations-0x02), and the generators and           *)
(* seed.insert_data (python-generators-0x00).                              *)
(***************************************************************************)
EXTENDS Integers, Sequences, FiniteSets, TLC

\* ------------------------------------------------------------------ bounds
\* Message rows ever inserted (the AutoField primary key never exceeds it).
MaxMessages == 3
\* Message rows inserted where the write side and the read model are explored.
MaxStored == 2
\* Python variables that hold a Message instance in memory.
NumHandles == 1

\* The users created by the test fixture (tests.py setUp).
Users == {"u1", "u2"}
\* Message bodies.
Contents == {"a", "b"}
Handles == 1..NumHandles

\* ------------------------------------------------------------------- state
VARIABLES
    users,          \* auth_user rows that exist
    msgs,           \* messaging_message: pk -> row
    notifications,  \* messaging_notification rows
    history,        \* messaging_messagehistory rows
    next_pk,        \* AutoField sequence of messaging_message
    next_nid,       \* AutoField sequence of messaging_notification
    next_hid,       \* AutoField sequence of messaging_messagehistory
    now,            \* timezone.now()
    inst,           \* in-memory Message instances, one per Python variable
    cache,          \* django.core.cache: user -> cached inbox view
    last,           \* the operation that ran last, its arguments and result
    procs,          \* concurrent requests: where each is, and its instance
    clock,          \* datetime.now(), in seconds
    request_counts, \* RateLimitMiddleware.request_counts: ip -> list
    served,         \* the POSTs the middleware handled: ip -> list
    response,       \* the request handled last and what became of it
    workers,        \* threads inside RateLimitMiddleware.__call__
    retry,          \* one call of a function wrapped by retry_on_failure
    query_cache,    \* 4-cache_query.py query_cache: key -> (time, result)
    cache_call,     \* the call of the cached function made last
    txn,            \* one call of a function wrapped by transactional
    conns,          \* one use of a connection manager
    pager,          \* one run of lazy_paginate and its consumer
    batch,          \* one run of batch_processing and its consumer
    seeding         \* user_data and the runs of seed.insert_data

\* The state of the messaging application.
messaging_vars == <<users, msgs, notifications, history, next_pk, next_nid,
                    next_hid, now, inst, cache, last, procs>>
\* The state of the rate limiter, of each decorator and context manager,
\* and of each generator.
limiter_vars == <<request_counts, served, response, workers>>
decorator_vars == <<retry, query_cache, cache_call, txn, conns>>
generator_vars == <<pager, batch, seeding>>
other_apps == <<clock, limiter_vars, decorator_vars, generator_vars>>

vars == <<messaging_vars, other_apps>>

\* The requests that run concurrently.
Procs == {1, 2}

\* The tables as one value, for the operators that rewrite several of them.
Store(m, n, h) == [msgs |-> m, notifications |-> n, history |-> h]

\* --------------------------------------------------------------- the models
\* Message.is_read = BooleanField(default=False)
is_read_default_true == TRUE
is_read_default == FALSE
\* Message.edited = BooleanField(default=False)
edited_default == FALSE
\* Notification.is_read = BooleanField(default=False)
notification_is_read_default == FALSE
\* parent_message = ForeignKey('self', null=True): 0 stands for NULL.
NullParent == 0

\* An unbound Python variable (pk 0 is never a primary key).
NoInstance ==
    [pk |-> 0, sender |-> "u1", receiver |-> "u1", content |-> "a",
     timestamp |-> 0, is_read |-> FALSE, edited |-> FALSE, parent_message |-> 0]

\* The columns Model.save writes for an instance.
Row_without_is_read(i) ==
    [sender |-> i.sender, receiver |-> i.receiver, content |-> i.content,
     timestamp |-> i.timestamp, is_read |-> is_read_default,
     edited |-> i.edited, parent_message |-> i.parent_message]
Row(i) ==
    [sender |-> i.sender, receiver |-> i.receiver, content |-> i.content,
     timestamp |-> i.timestamp, is_read |-> i.is_read, edited |-> i.edited,
     parent_message |-> i.parent_message]

\* The instance Message.objects.get(pk=pk) builds from a row.
Instance(pk, r) ==
    [pk |-> pk, sender |-> r.sender, receiver |-> r.receiver,
     content |-> r.content, timestamp |-> r.timestamp, is_read |-> r.is_read,
     edited |-> r.edited, parent_message |-> r.parent_message]

\* class Meta: ordering = ['-timestamp'] : a sorts before b.
MetaOrderingAscending(a, b) == a.timestamp < b.timestamp
MetaOrdering(a, b) == a.timestamp > b.timestamp

\* The primary keys of S in the order of Message.Meta.ordering.
RECURSIVE OrderBy(_, _)
OrderBy(db, S) ==
    IF S = {} THEN <<>>
    ELSE LET first == CHOOSE x \in S :
                        \A y \in S \ {x} : MetaOrdering(db[x], db[y])
         IN  <<first>> \o OrderBy(db, S \ {first})

\* ------------------------------------------------------------- signals.py
\* django.contrib.auth.get_user(request) reads request.session inside a
\* try that catches KeyError only: with request = None the attribute access
\* raises AttributeError; with a request it yields the session's user or
\* AnonymousUser.
get_user(request) ==
    IF request = "None" THEN "AttributeError" ELSE "AnonymousUser"

is_authenticated(user) == user \in Users

\* @receiver(post_save, sender=Message): the notification rows afterwards.
create_message_notification_any_save(ns, nid, instance, created) ==
    ns \cup {[id |-> nid, user |-> instance.receiver,
              message |-> instance.pk,
              is_read |-> notification_is_read_default]}
create_message_notification_to_sender(ns, nid, instance, created) ==
    IF created
    THEN ns \cup {[id |-> nid, user |-> instance.sender,
                   message |-> instance.pk,
                   is_read |-> notification_is_read_default]}
    ELSE ns
create_message_notification_once_per_user(ns, nid, instance, created) ==
    IF created /\ \A n \in ns : n.user # instance.receiver
    THEN ns \cup {[id |-> nid, user |-> instance.receiver,
                   message |-> instance.pk,
                   is_read |-> notification_is_read_default]}
    ELSE ns
create_message_notification(ns, nid, instance, created) ==
    IF created
    THEN ns \cup {[id |-> nid, user |-> instance.receiver,
                   message |-> instance.pk,
                   is_read |-> notification_is_read_default]}
    ELSE ns

\* log_message_edit with "instance.edited = True" outside the comparison.
log_message_edit_marks_every_update(db, hs, hid, instance) ==
    IF instance.pk = 0 \/ instance.pk \notin DOMAIN db
    THEN [raised |-> FALSE, history |-> hs, instance |-> instance]
    ELSE IF db[instance.pk].content = instance.content
    THEN [raised |-> FALSE, history |-> hs,
          instance |-> [instance EXCEPT !.edited = TRUE]]
    ELSE [raised |-> get_user("None") = "AttributeError", history |-> hs,
          instance |-> instance]

\* log_message_edit that also stamps the instance, as auto_now would.
log_message_edit_auto_now(db, hs, hid, instance) ==
    IF instance.pk = 0 \/ instance.pk \notin DOMAIN db
    THEN [raised |-> FALSE, history |-> hs, instance |-> instance]
    ELSE IF db[instance.pk].content = instance.content
    THEN [raised |-> FALSE, history |-> hs,
          instance |-> [instance EXCEPT !.timestamp = now]]
    ELSE [raised |-> get_user("None") = "AttributeError", history |-> hs,
          instance |-> instance]

\* @receiver(pre_save, sender=Message): what the receiver leaves behind:
\* whether it raised, the history rows, and the instance (edited may be set).
log_message_edit(db, hs, hid, instance) ==
    LET quiet == [raised |-> FALSE, history |-> hs, instance |-> instance]
    IN
    IF instance.pk = 0 THEN quiet
    ELSE IF instance.pk \notin DOMAIN db THEN quiet   \* Message.DoesNotExist
    ELSE LET old_message == db[instance.pk] IN
         IF old_message.content = instance.content THEN quiet
         ELSE LET current_user == get_user("None") IN
              IF current_user = "AttributeError"
              THEN [raised |-> TRUE, history |-> hs, instance |-> instance]
              ELSE LET editor == IF ~is_authenticated(current_user)
                                 THEN instance.sender
                                 ELSE current_user
                   IN [raised |-> FALSE,
                       history |-> hs \cup
                           {[id |-> hid, message |-> instance.pk,
                             old_content |-> old_message.content,
                             editor |-> editor]},
                       instance |-> [instance EXCEPT !.edited = TRUE]]

\* on_delete=models.CASCADE, followed by the collector: the messages that
\* go when the messages of D go (replies, transitively).
CascadeMessages_none(db, D) == D
RECURSIVE CascadeMessages(_, _)
CascadeMessages(db, D) ==
    LET more == {p \in DOMAIN db : db[p].parent_message \in D} \ D
    IN  IF more = {} THEN D ELSE CascadeMessages(db, D \cup more)

\* QuerySet.delete() of the messages S: the rows and what cascades from them.
DeleteMessages_keeps_notifications(s, S) ==
    LET D == CascadeMessages(s.msgs, S) IN
    Store([p \in DOMAIN s.msgs \ D |-> s.msgs[p]],
          s.notifications,
          {h \in s.history : h.message \notin D})
DeleteMessages(s, S) ==
    LET D == CascadeMessages(s.msgs, S) IN
    Store([p \in DOMAIN s.msgs \ D |-> s.msgs[p]],
          {n \in s.notifications : n.message \notin D},
          {h \in s.history : h.message \notin D})

\* The rows of the tables that reference a user through a CASCADE key.
SentBy(db, u) == {p \in DOMAIN db : db[p].sender = u}
ReceivedBySender(db, u) == {p \in DOMAIN db : db[p].sender = u}
ReceivedBy(db, u) == {p \in DOMAIN db : db[p].receiver = u}

\* User.delete(): the collector removes every row that references the user.
CascadeUser(s, u) ==
    LET s1 == DeleteMessages(s, SentBy(s.msgs, u) \cup ReceivedBy(s.msgs, u))
    IN  Store(s1.msgs,
              {n \in s1.notifications : n.user # u},
              {h \in s1.history : h.editor # u})

\* @receiver(post_delete, sender=User): the four deletes, in order.
cleanup_user_data_all_notifications(s, instance) ==
    LET s1 == DeleteMessages(s, SentBy(s.msgs, instance))
        s2 == DeleteMessages(s1, ReceivedBy(s1.msgs, instance))
    IN  Store(s2.msgs, {}, {h \in s2.history : h.editor # instance})
cleanup_user_data(s, instance) ==
    LET s1 == DeleteMessages(s, SentBy(s.msgs, instance))
        s2 == DeleteMessages(s1, ReceivedBy(s1.msgs, instance))
        s3 == Store(s2.msgs,
                    {n \in s2.notifications : n.user # instance},
                    s2.history)
    IN  Store(s3.msgs, s3.notifications,
              {h \in s3.history : h.editor # instance})

\* --------------------------------------------------------------- last
NoView == <<>>
NoThread == [id |-> 0, replies |-> <<>>]
Op(op, h, pk, user, result) ==
    [op |-> op, h |-> h, pk |-> pk, user |-> user, result |-> result,
     queries |-> 0, view |-> NoView, thread |-> NoThread]

\* A request that is not inside a creation.
Idle == [at |-> "idle", instance |-> NoInstance]

\* An application that is not running holds no state.
LimiterOff ==
    /\ request_counts = <<>>
    /\ served = <<>>
    /\ response = <<>>
    /\ workers = <<>>
RetryOff == retry = <<>>
CacheOff == query_cache = <<>> /\ cache_call = <<>>
TransactionalOff == txn = <<>>
ConnectionsOff == conns = <<>>
PagerOff == pager = <<>>
BatchOff == batch = <<>>
SeedingOff == seeding = <<>>
OtherAppsOff ==
    /\ clock = 0
    /\ LimiterOff /\ RetryOff /\ CacheOff /\ TransactionalOff
    /\ ConnectionsOff /\ PagerOff /\ BatchOff /\ SeedingOff

MessagingInit ==
    /\ users = Users
    /\ msgs = <<>>
    /\ notifications = {}
    /\ history = {}
    /\ next_pk = 1
    /\ next_nid = 1
    /\ next_hid = 1
    /\ now = 1
    /\ inst = [h \in Handles |-> NoInstance]
    /\ cache = [u \in Users |-> [hit |-> FALSE, view |-> NoView]]
    /\ last = Op("init", 0, 0, "u1", "ok")
    /\ procs = [pr \in Procs |-> Idle]

Init == MessagingInit /\ OtherAppsOff

\* Foreign keys of a row that point at rows that exist.
ForeignKeysHold_unenforced(i) == i.pk = i.pk
ForeignKeysHold_parent_unchecked(i) ==
    /\ i.sender \in users
    /\ i.receiver \in users
ForeignKeysHold(i) ==
    /\ i.sender \in users
    /\ i.receiver \in users
    /\ i.parent_message = NullParent \/ i.parent_message \in DOMAIN msgs

\* Message.objects.create(sender=, receiver=, content=, parent_message=,
\* is_read=): save(force_insert=True) with pre_save and post_save around it.
Create(h, s, r, c, p, rd) ==
    /\ next_pk <= MaxMessages
    /\ LET fresh == [pk |-> 0, sender |-> s, receiver |-> r, content |-> c,
                     timestamp |-> now, is_read |-> rd,
                     edited |-> edited_default, parent_message |-> p]
           pre == log_message_edit(msgs, history, next_hid, fresh)
           instance == [pre.instance EXCEPT !.pk = next_pk]
       IN
       IF ~ForeignKeysHold(fresh)
       THEN /\ last' = Op("create", h, 0, r, "IntegrityError")
            /\ UNCHANGED <<users, msgs, notifications, history, next_pk,
                           next_nid, next_hid, now, inst, cache, procs, other_apps>>
       ELSE /\ msgs' = (next_pk :> Row(instance)) @@ msgs
            /\ notifications' =
                   create_message_notification(notifications, next_nid,
                                               instance, TRUE)
            /\ history' = pre.history
            /\ next_pk' = next_pk + 1
            /\ next_nid' = next_nid + 1
            /\ now' = now + 1
            /\ inst' = [inst EXCEPT ![h] = instance]
            /\ last' = Op("create", h, next_pk, r, "ok")
            /\ UNCHANGED <<users, next_hid, cache, procs, other_apps>>

\* Message.objects.create(...) in request pr, first half: pre_save and the
\* INSERT of the Message, which is committed (autocommit) before post_save
\* is sent; other requests run in between.
create_insert(pr, s, r, c) ==
    /\ procs[pr].at = "idle"
    /\ next_pk <= MaxMessages
    /\ LET fresh == [pk |-> 0, sender |-> s, receiver |-> r, content |-> c,
                     timestamp |-> now, is_read |-> is_read_default,
                     edited |-> edited_default,
                     parent_message |-> NullParent]
           pre == log_message_edit(msgs, history, next_hid, fresh)
           instance == [pre.instance EXCEPT !.pk = next_pk]
       IN  /\ ForeignKeysHold(fresh)
           /\ msgs' = (next_pk :> Row(instance)) @@ msgs
           /\ history' = pre.history
           /\ procs' = [procs EXCEPT ![pr] =
                            [at |-> "post_save", instance |-> instance]]
    /\ next_pk' = next_pk + 1
    /\ now' = now + 1
    /\ last' = Op("create_insert", 0, 0, "u1", "ok")
    /\ UNCHANGED <<users, notifications, next_nid, next_hid, inst, cache, other_apps>>

\* Message.objects.create(...) in request pr, second half: post_save runs
\* create_message_notification for the request's own instance.
create_post_save(pr) ==
    /\ procs[pr].at = "post_save"
    /\ notifications' =
           create_message_notification(notifications, next_nid,
                                       procs[pr].instance, TRUE)
    /\ next_nid' = next_nid + 1
    /\ procs' = [procs EXCEPT ![pr] = Idle]
    /\ last' = Op("create", 0, procs[pr].instance.pk,
                  procs[pr].instance.receiver, "ok")
    /\ UNCHANGED <<users, msgs, history, next_pk, next_hid, now, inst,
                   cache, other_apps>>

\* message = Message.objects.get(pk=pk): a fresh copy of the stored row.
Get_binds_unsaved(h, pk) ==
    /\ inst' = [inst EXCEPT ![h] =
                   IF pk \in DOMAIN msgs THEN Instance(pk, msgs[pk])
                   ELSE [NoInstance EXCEPT !.pk = pk]]
    /\ last' = Op("get", 0, 0, "u1", "ok")
    /\ UNCHANGED <<users, msgs, notifications, history, next_pk, next_nid,
                   next_hid, now, cache, procs, other_apps>>
Get(h, pk) ==
    /\ IF pk \in DOMAIN msgs
       THEN /\ inst' = [inst EXCEPT ![h] = Instance(pk, msgs[pk])]
            /\ last' = Op("get", 0, 0, "u1", "ok")
       ELSE /\ inst' = inst
            /\ last' = Op("get", 0, 0, "u1", "DoesNotExist")
    /\ UNCHANGED <<users, msgs, notifications, history, next_pk, next_nid,
                   next_hid, now, cache, procs, other_apps>>

\* message.content = c, on the in-memory instance only.
SetContent(h, c) ==
    /\ inst[h].pk # 0
    /\ inst[h].content # c
    /\ inst' = [inst EXCEPT ![h].content = c]
    /\ last' = Op("assign", 0, 0, "u1", "ok")
    /\ UNCHANGED <<users, msgs, notifications, history, next_pk, next_nid,
                   next_hid, now, cache, procs, other_apps>>

\* message.is_read = True, on the in-memory instance only.
SetIsRead(h) ==
    /\ inst[h].pk # 0
    /\ ~inst[h].is_read
    /\ inst' = [inst EXCEPT ![h].is_read = TRUE]
    /\ last' = Op("assign", 0, 0, "u1", "ok")
    /\ UNCHANGED <<users, msgs, notifications, history, next_pk, next_nid,
                   next_hid, now, cache, procs, other_apps>>

\* message.save() of an instance that has a primary key: pre_save, then
\* UPDATE of every column (INSERT when no row has the key), then post_save.
Save(h) ==
    /\ inst[h].pk # 0
    /\ LET pre == log_message_edit(msgs, history, next_hid, inst[h])
           instance == pre.instance
           created == instance.pk \notin DOMAIN msgs
       IN
       IF pre.raised
       THEN /\ last' = Op("save", h, instance.pk, instance.receiver,
                          "AttributeError")
            /\ UNCHANGED <<users, msgs, notifications, history, next_pk,
                           next_nid, next_hid, now, inst, cache, procs, other_apps>>
       ELSE IF created /\ ~ForeignKeysHold(instance)
       THEN /\ last' = Op("save", h, instance.pk, instance.receiver,
                          "IntegrityError")
            /\ UNCHANGED <<users, msgs, notifications, history, next_pk,
                           next_nid, next_hid, now, inst, cache, procs, other_apps>>
       ELSE /\ msgs' = (instance.pk :> Row(instance)) @@ msgs
            /\ history' = pre.history
            /\ next_hid' = IF pre.history = history THEN next_hid
                           ELSE next_hid + 1
            /\ notifications' =
                   create_message_notification(notifications, next_nid,
                                               instance, created)
            /\ next_nid' = IF notifications' = notifications THEN next_nid
                           ELSE next_nid + 1
            /\ inst' = [inst EXCEPT ![h] = instance]
            /\ last' = Op("save", h, instance.pk, instance.receiver, "ok")
            /\ UNCHANGED <<users, next_pk, now, cache, procs, other_apps>>

\* delete_user(request) with a POST: request.user.delete(), which runs the
\* collector's cascade and then sends post_delete to cleanup_user_data.
delete_user(u) ==
    /\ u \in users
    /\ LET s1 == CascadeUser(Store(msgs, notifications, history), u)
           s2 == cleanup_user_data(s1, u)
       IN  /\ msgs' = s2.msgs
           /\ notifications' = s2.notifications
           /\ history' = s2.history
    /\ users' = users \ {u}
    /\ last' = Op("delete_user", 0, 0, u, "ok")
    /\ UNCHANGED <<next_pk, next_nid, next_hid, now, inst, cache, procs, other_apps>>

\* auth_user and the tables as one value.
Db(us, s) ==
    [users |-> us, msgs |-> s.msgs, notifications |-> s.notifications,
     history |-> s.history]

\* request.user.delete() cut short after its first k writes: the collector's
\* cascade with the user row, then the deletes of cleanup_user_data one by
\* one (messages sent, messages received, notifications).
DeleteUpTo(us, s, u, k) ==
    LET s1 == CascadeUser(s, u)
        s2 == DeleteMessages(s1, SentBy(s1.msgs, u))
        s3 == DeleteMessages(s2, ReceivedBy(s2.msgs, u))
        s4 == Store(s3.msgs, {n \in s3.notifications : n.user # u},
                    s3.history)
    IN  IF k = 0 THEN Db(us, s)
        ELSE IF k = 1 THEN Db(us \ {u}, s1)
        ELSE IF k = 2 THEN Db(us \ {u}, s2)
        ELSE IF k = 3 THEN Db(us \ {u}, s3)
        ELSE Db(us \ {u}, s4)

\* Model.delete() runs the collector, the post_delete receivers included,
\* inside transaction.atomic: an exception that leaves the block restores
\* what was stored when the block was entered.
atomic_commits_partial(before, partial) == partial
atomic(before, partial) == before

\* delete_user(request) where the write after the first k writes fails with
\* a database error (k = 0: the collector's own delete; k = 1..4: one of the
\* four deletes of cleanup_user_data).
delete_user_failed(u, k) ==
    /\ u \in users
    /\ LET s == Store(msgs, notifications, history)
           after == atomic(Db(users, s), DeleteUpTo(users, s, u, k))
       IN  /\ users' = after.users
           /\ msgs' = after.msgs
           /\ notifications' = after.notifications
           /\ history' = after.history
    /\ last' = Op("delete_user_failed", k, 0, u, "DatabaseError")
    /\ UNCHANGED <<next_pk, next_nid, next_hid, now, inst, cache, procs, other_apps>>

\* Message.objects.create(...) where the INSERT of the Notification fails:
\* Model.save sends post_save after the INSERT of the Message has been
\* committed (autocommit; signals.py opens no transaction), so the receiver's
\* exception reaches the caller with the Message stored. The caller's
\* variable is not bound.
Create_notification_fails(h, s, r, c, p, rd) ==
    /\ next_pk <= MaxMessages
    /\ LET fresh == [pk |-> 0, sender |-> s, receiver |-> r, content |-> c,
                     timestamp |-> now, is_read |-> rd,
                     edited |-> edited_default, parent_message |-> p]
           pre == log_message_edit(msgs, history, next_hid, fresh)
           instance == [pre.instance EXCEPT !.pk = next_pk]
       IN  /\ ForeignKeysHold(fresh)
           /\ msgs' = (next_pk :> Row(instance)) @@ msgs
           /\ history' = pre.history
           /\ next_pk' = next_pk + 1
           /\ now' = now + 1
           /\ last' = Op("create", h, next_pk, r, "DatabaseError")
           /\ UNCHANGED <<users, notifications, next_nid, next_hid, inst,
                          cache, procs, other_apps>>

\* message.save() of a stored instance where the UPDATE fails: pre_save has
\* run (and committed what it wrote), the row is not written, post_save is
\* not sent.
Save_update_fails(h) ==
    /\ inst[h].pk \in DOMAIN msgs
    /\ LET pre == log_message_edit(msgs, history, next_hid, inst[h])
       IN  /\ ~pre.raised
           /\ history' = pre.history
           /\ next_hid' = IF pre.history = history THEN next_hid
                          ELSE next_hid + 1
           /\ last' = Op("save", h, inst[h].pk, inst[h].receiver,
                         "DatabaseError")
    /\ UNCHANGED <<users, msgs, notifications, next_pk, next_nid, now, inst,
                   cache, procs, other_apps>>

\* The object Message.get_thread returns, with the replies relation followed
\* from every node (the related manager lists in Meta.ordering).
RECURSIVE Thread(_, _)
Thread(db, pk) ==
    LET kids == OrderBy(db, {c \in DOMAIN db : db[c].parent_message = pk})
    IN  [id |-> pk,
         replies |-> [k \in 1..Len(kids) |-> Thread(db, kids[k])]]

\* Message.objects.filter(id=self.id).prefetch_related('replies').first()
get_thread_one_level(db, self) ==
    IF self.pk \in DOMAIN db
    THEN LET kids == OrderBy(db, {c \in DOMAIN db :
                                     db[c].parent_message = self.pk})
         IN  [id |-> self.pk,
              replies |-> [k \in 1..Len(kids) |->
                              [id |-> kids[k], replies |-> <<>>]]]
    ELSE NoThread
get_thread(db, self) ==
    IF self.pk \in DOMAIN db THEN Thread(db, self.pk) ELSE NoThread

\* The queries get_thread runs: the filter(id=...).first() and, when it
\* finds the row, the one prefetch of the row's replies.
get_thread_queries(db, self) == IF self.pk \in DOMAIN db THEN 2 ELSE 1

\* The queries run while the replies of the first k children of t, and of
\* everything below them, are followed: only the root's replies are
\* prefetched, so node.replies of every other node is a query of its own.
RECURSIVE lazy_replies_queries(_, _)
lazy_replies_queries(t, k) ==
    IF k = 0 THEN 0
    ELSE lazy_replies_queries(t, k - 1) + 1
             + lazy_replies_queries(t.replies[k], Len(t.replies[k].replies))

\* thread = message.get_thread(), then thread.replies and the replies of
\* every reply are walked.
GetThread(h) ==
    /\ inst[h].pk # 0
    /\ LET thread == get_thread(msgs, inst[h]) IN
       last' = [Op("get_thread", h, inst[h].pk, inst[h].receiver, "ok")
                   EXCEPT !.thread = thread,
                          !.queries = get_thread_queries(msgs, inst[h])
                              + lazy_replies_queries(thread,
                                                     Len(thread.replies))]
    /\ UNCHANGED <<users, msgs, notifications, history, next_pk, next_nid,
                   next_hid, now, inst, cache, procs, other_apps>>

\* MessageDetailView.get_object: select_related('sender', 'receiver') joins
\* the users into the query of the message, prefetch_related('replies') adds
\* one query; get() of a missing row raises before the prefetch.
get_object(pk) ==
    /\ last' = IF pk \in DOMAIN msgs
               THEN [Op("get_object", 0, 0, "u1", "ok") EXCEPT !.queries = 2]
               ELSE [Op("get_object", 0, 0, "u1", "DoesNotExist")
                        EXCEPT !.queries = 1]
    /\ UNCHANGED <<users, msgs, notifications, history, next_pk, next_nid,
                   next_hid, now, inst, cache, procs, other_apps>>

\* Message.unread.unread_for_user(user): the unread messages received by
\* the user, in the default ordering.
unread_for_user_oldest_first(db, user) ==
    LET v == OrderBy(db, {p \in DOMAIN db :
                             db[p].receiver = user /\ ~db[p].is_read})
    IN  [k \in 1..Len(v) |-> v[Len(v) + 1 - k]]
unread_for_user_with_read(db, user) ==
    OrderBy(db, {p \in DOMAIN db : db[p].receiver = user})
unread_for_user(db, user) ==
    OrderBy(db, {p \in DOMAIN db : db[p].receiver = user /\ ~db[p].is_read})

GetUnread(u) ==
    /\ u \in users
    /\ last' = [Op("get_unread", 0, 0, u, "ok")
                   EXCEPT !.view = unread_for_user(msgs, u), !.queries = 1]
    /\ UNCHANGED <<users, msgs, notifications, history, next_pk, next_nid,
                   next_hid, now, inst, cache, procs, other_apps>>

\* GET of the 'inbox' view by a logged-in user: served from the cache when
\* the user's view is cached, else queried once and cached.
GetInboxView_never_stores(u) ==
    /\ u \in users
    /\ cache' = cache
    /\ last' = [Op("inbox", 0, 0, u, "ok")
                   EXCEPT !.view = IF cache[u].hit THEN cache[u].view
                                   ELSE OrderBy(msgs,
                                       {p \in DOMAIN msgs :
                                           /\ msgs[p].receiver = u
                                           /\ ~msgs[p].is_read}),
                          !.queries = IF cache[u].hit THEN 0 ELSE 1]
    /\ UNCHANGED <<users, msgs, notifications, history, next_pk, next_nid,
                   next_hid, now, inst, procs, other_apps>>
GetInboxView_shared_key(u) ==
    /\ u \in users
    /\ IF cache[u].hit
       THEN /\ cache' = cache
            /\ last' = [Op("inbox", 0, 0, u, "ok")
                           EXCEPT !.view = cache[u].view, !.queries = 0]
       ELSE LET view == unread_for_user(msgs, u) IN
            /\ cache' = [v \in Users |-> [hit |-> TRUE, view |-> view]]
            /\ last' = [Op("inbox", 0, 0, u, "ok")
                           EXCEPT !.view = view, !.queries = 1]
    /\ UNCHANGED <<users, msgs, notifications, history, next_pk, next_nid,
                   next_hid, now, inst, procs, other_apps>>
GetInboxView(u) ==
    /\ u \in users
    /\ IF cache[u].hit
       THEN /\ cache' = cache
            /\ last' = [Op("inbox", 0, 0, u, "ok")
                           EXCEPT !.view = cache[u].view, !.queries = 0]
       ELSE LET view == unread_for_user(msgs, u) IN
            /\ cache' = [cache EXCEPT ![u] = [hit |-> TRUE, view |-> view]]
            /\ last' = [Op("inbox", 0, 0, u, "ok")
                           EXCEPT !.view = view, !.queries = 1]
    /\ UNCHANGED <<users, msgs, notifications, history, next_pk, next_nid,
                   next_hid, now, inst, procs, other_apps>>

\* cache.clear()
CacheClear ==
    /\ \E u \in Users : cache[u].hit
    /\ cache' = [u \in Users |-> [hit |-> FALSE, view |-> NoView]]
    /\ last' = Op("cache_clear", 0, 0, "u1", "ok")
    /\ UNCHANGED <<users, msgs, notifications, history, next_pk, next_nid,
                   next_hid, now, inst, procs, other_apps>>

\* ------------------------------------------------------- specifications
\* The write side, with the unread query: creation, in-memory edits, save,
\* user deletion, unread_for_user.
Next ==
    \/ \E h \in Handles, s \in Users, r \in Users :
          next_pk <= MaxStored
              /\ Create(h, s, r, "a", NullParent, is_read_default)
    \/ \E h \in Handles, pk \in 1..MaxMessages : Get(h, pk)
    \/ \E h \in Handles, c \in Contents : SetContent(h, c)
    \/ \E h \in Handles : SetIsRead(h)
    \/ \E h \in Handles : Save(h)
    \/ \E u \in Users : delete_user(u)
    \/ \E u \in Users : GetUnread(u)

Spec == Init /\ [][Next]_vars

\* The thread resolver: messages and replies are created, users deleted,
\* and threads fetched.
NextThread ==
    \/ \E h \in Handles, s \in Users, r \in Users, p \in 0..MaxMessages :
          Create(h, s, r, "a", p, is_read_default)
    \/ \E h \in Handles, pk \in 1..MaxMessages : Get(h, pk)
    \/ \E u \in Users : delete_user(u)
    \/ \E h \in Handles : GetThread(h)
    \/ \E pk \in 1..MaxMessages : get_object(pk)

SpecThread == Init /\ [][NextThread]_vars

\* The read model: top-level messages of one sender are created unread, marked read and
\* saved, users deleted, the cached inbox view read and the cache cleared.
NextInbox ==
    \/ \E h \in Handles, r \in Users :
          next_pk <= MaxStored
              /\ Create(h, "u1", r, "a", NullParent, is_read_default)
    \/ \E h \in Handles, pk \in 1..MaxMessages : Get(h, pk)
    \/ \E h \in Handles : SetIsRead(h)
    \/ \E h \in Handles : Save(h)
    \/ \E u \in Users : delete_user(u)
    \/ \E u \in Users : GetInboxView(u)
    \/ \E u \in Users : GetUnread(u)
    \/ CacheClear

SpecInbox == Init /\ [][NextInbox]_vars

\* Creation and update with storage failures: the INSERT of the
\* Notification or the UPDATE of the Message may fail with a database error.
NextFaults ==
    \/ \E h \in Handles, s \in Users, r \in Users :
          next_pk <= MaxStored
              /\ Create(h, s, r, "a", NullParent, is_read_default)
    \/ \E h \in Handles, s \in Users, r \in Users :
          next_pk <= MaxStored
              /\ Create_notification_fails(h, s, r, "a", NullParent,
                                           is_read_default)
    \/ \E h \in Handles, pk \in 1..MaxMessages : Get(h, pk)
    \/ \E h \in Handles, c \in Contents : SetContent(h, c)
    \/ \E h \in Handles : SetIsRead(h)
    \/ \E h \in Handles : Save(h)
    \/ \E h \in Handles : Save_update_fails(h)

SpecFaults == Init /\ [][NextFaults]_vars

\* User deletion with storage failures: messages are created and loaded,
\* users deleted, and any write of a deletion may fail with a database error.
NextDeleteFaults ==
    \/ \E h \in Handles, s \in Users, r \in Users :
          next_pk <= MaxStored
              /\ Create(h, s, r, "a", NullParent, is_read_default)
    \/ \E h \in Handles, pk \in 1..MaxMessages : Get(h, pk)
    \/ \E u \in Users : delete_user(u)
    \/ \E u \in Users, k \in 0..4 : delete_user_failed(u, k)

SpecDeleteFaults == Init /\ [][NextDeleteFaults]_vars

\* Stale copies: messages and replies are created and saved again, and
\* users deleted while variables still hold their messages.
NextStale ==
    \/ \E h \in Handles, s \in Users, r \in Users, p \in 0..MaxMessages :
          Create(h, s, r, "a", p, is_read_default)
    \/ \E h \in Handles : Save(h)
    \/ \E u \in Users : delete_user(u)

SpecStale == Init /\ [][NextStale]_vars

\* Concurrent creations: two requests create messages, the halves of their
\* creations interleaved in any order.
NextConcurrent ==
    \/ \E pr \in Procs, s \in Users, r \in Users :
          create_insert(pr, s, r, "a")
    \/ \E pr \in Procs : create_post_save(pr)

SpecConcurrent == Init /\ [][NextConcurrent]_vars

\* ------------------------------------------------- RateLimitMiddleware
\* Django-Middleware-0x03/chats/middleware.py. Time is in whole seconds.
\* POST requests the middleware handles in one exploration.
MaxPosts == 7
\* The latest time of day explored.
MaxClock == 61
\* The seconds that pass between two requests.
Ticks == {30, 31}
\* Client addresses (the first entry of X-Forwarded-For, or REMOTE_ADDR).
IPs == {"ip1", "ip2"}
Methods == {"POST", "GET"}
\* self.MAX_MESSAGES = 5
MAX_MESSAGES == 5
\* self.TIME_WINDOW = 60
TIME_WINDOW == 60

\* The condition of the list comprehension: the entry t = (time, 1) is kept.
in_time_window_exclusive(t, current_time) ==
    current_time - t[1] < TIME_WINDOW
in_time_window(t, current_time) ==
    current_time - t[1] <= TIME_WINDOW
\* [t for t in self.request_counts[ip] if ...]
filter_requests(entries, current_time) ==
    SelectSeq(entries, LAMBDA t : in_time_window(t, current_time))
\* request_count > self.MAX_MESSAGES
limit_exceeded(request_count) == request_count > MAX_MESSAGES

\* What became of a request: handed to get_response, or answered with 429.
NoResponse == [ip |-> "ip1", method |-> "GET", status |-> "none"]
Passed == "get_response"
TooManyRequests == "429"

\* POSTs handled so far, of all addresses.
Posts == Len(served["ip1"]) + Len(served["ip2"])

LimiterInit ==
    /\ request_counts = [ip \in IPs |-> <<>>]
    /\ served = [ip \in IPs |-> <<>>]
    /\ response = NoResponse
    /\ workers = <<>>

\* RateLimitMiddleware.__call__, run from start to end by one thread.
RateLimit(ip, method) ==
    /\ method = "POST" => Posts < MaxPosts
    /\ IF method = "POST"
       THEN LET current_time == clock
                kept == filter_requests(request_counts[ip], current_time)
                appended == Append(kept, <<current_time, 1>>)
                request_count == Len(appended)
                status == IF limit_exceeded(request_count)
                          THEN TooManyRequests ELSE Passed
            IN /\ request_counts' = [request_counts EXCEPT ![ip] = appended]
               /\ served' = [served EXCEPT
                     ![ip] = Append(@, [at |-> current_time,
                                        status |-> status])]
               /\ response' = [ip |-> ip, method |-> method,
                               status |-> status]
       ELSE /\ response' = [ip |-> ip, method |-> method, status |-> Passed]
            /\ UNCHANGED <<request_counts, served>>
    /\ UNCHANGED <<messaging_vars, clock, workers, decorator_vars,
                   generator_vars>>

\* Time passes between two requests.
Tick(d) ==
    /\ clock + d <= MaxClock
    /\ clock' = clock + d
    /\ UNCHANGED <<messaging_vars, limiter_vars, decorator_vars,
                   generator_vars>>

InitLimiter ==
    /\ MessagingInit
    /\ clock = 0
    /\ LimiterInit
    /\ RetryOff /\ CacheOff /\ TransactionalOff
    /\ ConnectionsOff /\ PagerOff /\ BatchOff /\ SeedingOff

\* Requests handled one at a time.
NextLimiter ==
    \/ \E ip \in IPs, method \in Methods : RateLimit(ip, method)
    \/ \E d \in Ticks : Tick(d)

SpecLimiter == InitLimiter /\ [][NextLimiter]_vars

\* The threads of the server that share the middleware instance.
Workers == {"w1", "w2"}
\* A thread that is not inside __call__.
NoCall == [pc |-> "idle", ip |-> "ip1", current_time |-> 0, kept |-> <<>>]
\* POSTs handled or being handled, of all addresses.
PostsBegun == Posts + Cardinality({w \in Workers : workers[w].pc # "idle"})

\* __call__ up to current_time = datetime.now(), for a POST of ip.
call_begin(w, ip) ==
    /\ workers[w].pc = "idle"
    /\ PostsBegun < MaxPosts
    /\ workers' = [workers EXCEPT ![w] =
          [pc |-> "filter", ip |-> ip, current_time |-> clock, kept |-> <<>>]]
    /\ UNCHANGED <<messaging_vars, clock, request_counts, served, response,
                   decorator_vars, generator_vars>>
\* The list comprehension is evaluated over the list the dict holds now.
call_filter(w) ==
    /\ workers[w].pc = "filter"
    /\ workers' = [workers EXCEPT ![w].pc = "assign",
          ![w].kept = filter_requests(request_counts[workers[w].ip],
                                      workers[w].current_time)]
    /\ UNCHANGED <<messaging_vars, clock, request_counts, served, response,
                   decorator_vars, generator_vars>>
\* self.request_counts[ip] = <the filtered list>
call_assign(w) ==
    /\ workers[w].pc = "assign"
    /\ request_counts' = [request_counts EXCEPT
          ![workers[w].ip] = workers[w].kept]
    /\ workers' = [workers EXCEPT ![w].pc = "append"]
    /\ UNCHANGED <<messaging_vars, clock, served, response, decorator_vars,
                   generator_vars>>
\* self.request_counts[ip].append((current_time, 1))
call_append(w) ==
    /\ workers[w].pc = "append"
    /\ request_counts' = [request_counts EXCEPT
          ![workers[w].ip] = Append(@, <<workers[w].current_time, 1>>)]
    /\ workers' = [workers EXCEPT ![w].pc = "count"]
    /\ UNCHANGED <<messaging_vars, clock, served, response, decorator_vars,
                   generator_vars>>
\* request_count = len(self.request_counts[ip]), the comparison with
\* MAX_MESSAGES, and the 429 or the call of get_response.
call_count(w) ==
    /\ workers[w].pc = "count"
    /\ LET ip == workers[w].ip
           request_count == Len(request_counts[ip])
           status == IF limit_exceeded(request_count)
                     THEN TooManyRequests ELSE Passed
       IN /\ served' = [served EXCEPT
                ![ip] = Append(@, [at |-> workers[w].current_time,
                                   status |-> status])]
          /\ response' = [ip |-> ip, method |-> "POST", status |-> status]
    /\ workers' = [workers EXCEPT ![w] = NoCall]
    /\ UNCHANGED <<messaging_vars, clock, request_counts, decorator_vars,
                   generator_vars>>

InitLimiterThreads ==
    /\ MessagingInit
    /\ clock = 0
    /\ request_counts = [ip \in IPs |-> <<>>]
    /\ served = [ip \in IPs |-> <<>>]
    /\ response = NoResponse
    /\ workers = [w \in Workers |-> NoCall]
    /\ RetryOff /\ CacheOff /\ TransactionalOff
    /\ ConnectionsOff /\ PagerOff /\ BatchOff /\ SeedingOff

\* POSTs of one address that arrive within one second and are handled by
\* two threads, their steps interleaved in any order.
NextLimiterThreads ==
    \/ \E w \in Workers : call_begin(w, "ip1")
    \/ \E w \in Workers : call_filter(w)
    \/ \E w \in Workers : call_assign(w)
    \/ \E w \in Workers : call_append(w)
    \/ \E w \in Workers : call_count(w)

SpecLimiterThreads == InitLimiterThreads /\ [][NextLimiterThreads]_vars

\* ---------------------------------------------------- retry_on_failure
\* python-decorators-0x01/3-retry_on_failure.py.
\* The largest retries argument explored.
MaxRetries == 3
\* The delay arguments explored, in seconds.
Delays == {1, 2}
\* What one invocation of the wrapped function does: it returns, or raises
\* a sqlite3 database error, or raises an exception of another type.
Outcomes == {"ok", "OperationalError", "DatabaseError", "ValueError"}
\* except (sqlite3.OperationalError, sqlite3.DatabaseError)
is_retryable(outcome) == outcome \in {"OperationalError", "DatabaseError"}
\* if attempt == retries: break
is_last_attempt_never(attempt, retries) == attempt = retries + 1
is_last_attempt(attempt, retries) == attempt = retries
\* 0.5 + random.random(), in halves: random() is in [0, 1).
JitterHalves == {1, 2}
\* 2 ** attempt
RECURSIVE Pow2(_)
Pow2(n) == IF n = 0 THEN 1 ELSE 2 * Pow2(n - 1)

\* wrapper called with retries and delay: last_exception = None, attempt 0.
RetryCall(retries, delay) ==
    [retries |-> retries, current_delay |-> delay, attempt |-> 0,
     pc |-> "call", outcomes |-> <<>>, last_exception |-> "None",
     sleeps |-> 0, slept |-> 0, result |-> "None"]

\* One pass through the try block: func is invoked and returns or raises.
retry_attempt(outcome) ==
    /\ retry.pc = "call"
    /\ LET invoked == [retry EXCEPT !.outcomes = Append(@, outcome)]
       IN retry' =
            IF outcome = "ok"
            THEN [invoked EXCEPT !.pc = "returned", !.result = outcome]
            ELSE IF ~is_retryable(outcome)
            THEN [invoked EXCEPT !.pc = "raised", !.result = outcome]
            ELSE IF is_last_attempt(retry.attempt, retry.retries)
            THEN [invoked EXCEPT !.last_exception = outcome,
                                 !.pc = "raised", !.result = outcome]
            ELSE [invoked EXCEPT !.last_exception = outcome, !.pc = "sleep"]
    /\ UNCHANGED <<messaging_vars, clock, limiter_vars, query_cache,
                   cache_call, txn, conns, generator_vars>>

\* time.sleep(current_delay * (2 ** attempt) * (0.5 + random.random())),
\* then the next turn of the loop, or its end and raise last_exception.
retry_sleep(jitter) ==
    /\ retry.pc = "sleep"
    /\ LET sleep_time == retry.current_delay * Pow2(retry.attempt) * jitter
           slept == [retry EXCEPT !.sleeps = @ + 1, !.slept = @ + sleep_time,
                                  !.attempt = @ + 1]
       IN retry' =
            IF retry.attempt + 1 <= retry.retries
            THEN [slept EXCEPT !.pc = "call"]
            ELSE [slept EXCEPT !.pc = "raised",
                               !.result = retry.last_exception]
    /\ UNCHANGED <<messaging_vars, clock, limiter_vars, query_cache,
                   cache_call, txn, conns, generator_vars>>

InitRetry ==
    /\ MessagingInit
    /\ clock = 0
    /\ LimiterOff
    /\ \E retries \in 0..MaxRetries, delay \in Delays :
          retry = RetryCall(retries, delay)
    /\ CacheOff /\ TransactionalOff
    /\ ConnectionsOff /\ PagerOff /\ BatchOff /\ SeedingOff

NextRetry ==
    \/ \E outcome \in Outcomes : retry_attempt(outcome)
    \/ \E jitter \in JitterHalves : retry_sleep(jitter)

\* The thread that runs the wrapper goes on until the wrapper is left.
SpecRetry == InitRetry /\ [][NextRetry]_vars /\ WF_vars(NextRetry)

\* --------------------------------------------------------- cache_query
\* python-decorators-0x01/4-cache_query.py. Time is in whole seconds.
\* Calls of the cached function in one exploration.
MaxCacheCalls == 3
\* The latest time explored for the cache.
MaxCacheClock == 452
\* The seconds that pass between two calls.
CacheTicks == {150, 151}
\* The seconds the wrapped function may take.
Durations == {0, 1}
\* timedelta(minutes=5), in seconds
EXPIRY == 300
\* The query strings passed; the empty string is falsy.
Queries == {"", "SELECT 1", "SELECT 2"}
\* What the wrapped function hands back when invoked: the rows the table
\* holds at that time, or an exception.
Fetched == {"rows1", "rows2", "raise"}
\* hashlib.sha256(query.encode()).hexdigest(): distinct queries explored
\* have distinct digests.
sha256_hexdigest(query) ==
    CASE query = "SELECT 1" -> "a3f1"
      [] query = "SELECT 2" -> "09bc"
      [] OTHER -> "e3b0"
\* datetime.now() - cached_time < timedelta(minutes=5)
is_unexpired_inclusive(cached_time, current) == current - cached_time <= EXPIRY
is_unexpired(cached_time, current) == current - cached_time < EXPIRY

\* The dict with one entry removed, and with one entry set.
DictDel(d, key) == [k \in DOMAIN d \ {key} |-> d[k]]
DictSet(d, key, value) ==
    [k \in DOMAIN d \cup {key} |-> IF k = key THEN value ELSE d[k]]

NoCachedTime == 0 - 1
\* No call was made yet.
NoCacheCall ==
    [n |-> 0, query |-> "", cache |-> TRUE, at |-> 0,
     cached_time |-> NoCachedTime, evicted |-> FALSE, invoked |-> 0,
     returned |-> "None"]

\* wrapper(query=query, cache=use_cache): the wrapped function, if it is
\* invoked, takes d seconds and hands back fetched.
CachedCall(query, use_cache, fetched, d) ==
    /\ cache_call.n < MaxCacheCalls
    /\ clock + d <= MaxCacheClock
    /\ LET cache_key == sha256_hexdigest(query)
           bypass == ~use_cache \/ query = ""
           present == ~bypass /\ cache_key \in DOMAIN query_cache
           cached_time == IF present THEN query_cache[cache_key][1]
                          ELSE NoCachedTime
           hit == present /\ is_unexpired(cached_time, clock)
           call == [n |-> cache_call.n + 1, query |-> query,
                    cache |-> use_cache, at |-> clock,
                    cached_time |-> cached_time,
                    evicted |-> present /\ ~hit,
                    invoked |-> IF hit THEN 0 ELSE 1,
                    returned |-> IF hit THEN query_cache[cache_key][2]
                                 ELSE fetched]
       IN /\ cache_call' = call
          /\ clock' = IF hit THEN clock ELSE clock + d
          /\ query_cache' =
               IF bypass \/ hit THEN query_cache
               ELSE IF fetched = "raise" THEN DictDel(query_cache, cache_key)
               ELSE DictSet(query_cache, cache_key, <<clock + d, fetched>>)
    /\ UNCHANGED <<messaging_vars, limiter_vars, retry, txn, conns,
                   generator_vars>>

\* Time passes between two calls.
CacheTick(d) ==
    /\ clock + d <= MaxCacheClock
    /\ clock' = clock + d
    /\ UNCHANGED <<messaging_vars, limiter_vars, decorator_vars,
                   generator_vars>>

InitCache ==
    /\ MessagingInit
    /\ clock = 0
    /\ LimiterOff /\ RetryOff
    /\ query_cache = <<>>
    /\ cache_call = NoCacheCall
    /\ TransactionalOff
    /\ ConnectionsOff /\ PagerOff /\ BatchOff /\ SeedingOff

NextCache ==
    \/ \E query \in Queries, use_cache \in BOOLEAN, fetched \in Fetched,
          d \in Durations : CachedCall(query, use_cache, fetched, d)
    \/ \E d \in CacheTicks : CacheTick(d)

SpecCache == InitCache /\ [][NextCache]_vars

\* -------------------------------------------------------- transactional
\* python-decorators-0x01/2-transactional.py.
\* Calls of the decorated function in one exploration.
MaxTxnCalls == 3
\* How the caller hands over the connection: as a positional argument, as
\* the keyword conn, or not at all.
ConnArgs == {"positional", "keyword", "none"}
\* The e-mail addresses written; "e0" is the one stored at the start.
Emails == {"e1", "e2"}
\* Exceptions that are instances of Exception, and exceptions that are only
\* instances of BaseException.
Exceptions == {"ValueError", "sqlite3.Error"}
BaseExceptions == {"KeyboardInterrupt"}
\* What the wrapped function does: it returns its result or raises.
FuncOutcomes == {"returns"} \cup Exceptions \cup BaseExceptions
\* What conn.commit() does: it returns or raises.
CommitOutcomes == {"ok", "sqlite3.OperationalError"}
\* except Exception as e
is_caught_always(exc) == exc = exc
is_caught(exc) == exc \in Exceptions \cup {"sqlite3.OperationalError"}
NoWrite == "none"

\* No call was made yet; the row holds "e0" and nothing is pending.
NoTxnCall ==
    [n |-> 0, conn |-> "none", outcome |-> "returns", events |-> <<>>,
     result |-> "None", raised |-> "None", committed |-> "e0",
     pending |-> NoWrite]

\* wrapper(*args, **kwargs): the wrapped function writes `write` (or
\* nothing) on the connection and then returns or raises `outcome`;
\* conn.commit(), if reached, does `commit`.
Transactional(conn_arg, write, outcome, commit) ==
    /\ txn.n < MaxTxnCalls
    /\ LET call == [txn EXCEPT !.n = @ + 1, !.conn = conn_arg,
                               !.outcome = outcome, !.events = <<>>,
                               !.result = "None", !.raised = "None"]
           written == IF write = NoWrite THEN txn.pending ELSE write
           ran == [call EXCEPT !.events = <<"func">>, !.pending = written]
           rolled_back(c, exc) ==
               [c EXCEPT !.events = Append(@, "rollback"),
                         !.pending = NoWrite, !.raised = exc]
       IN txn' =
            IF conn_arg = "none"
            THEN [call EXCEPT !.raised = "ValueError: no connection"]
            ELSE IF outcome = "returns"
            THEN LET tried == [ran EXCEPT !.events = Append(@, "commit")]
                 IN IF commit = "ok"
                    THEN [tried EXCEPT
                            !.committed = IF written = NoWrite THEN @
                                          ELSE written,
                            !.pending = NoWrite,
                            !.result = "result"]
                    ELSE IF is_caught(commit)
                    THEN rolled_back(tried, commit)
                    ELSE [tried EXCEPT !.raised = commit]
            ELSE IF is_caught(outcome)
            THEN rolled_back(ran, outcome)
            ELSE [ran EXCEPT !.raised = outcome]
    /\ UNCHANGED <<messaging_vars, clock, limiter_vars, retry, query_cache,
                   cache_call, conns, generator_vars>>

InitTransactional ==
    /\ MessagingInit
    /\ clock = 0
    /\ LimiterOff /\ RetryOff /\ CacheOff
    /\ txn = NoTxnCall
    /\ ConnectionsOff /\ PagerOff /\ BatchOff /\ SeedingOff

NextTransactional ==
    \E conn_arg \in ConnArgs, write \in Emails \cup {NoWrite},
       outcome \in FuncOutcomes, commit \in CommitOutcomes :
          Transactional(conn_arg, write, outcome, commit)

SpecTransactional == InitTransactional /\ [][NextTransactional]_vars

\* ------------------------------------------------- connection managers
\* python-decorators-0x01/1-with_db_connection.py and
\* python-context-async-perations-0x02/0-databaseconnection.py, 1-execute.py.
\* Uses of a connection manager in one exploration.
MaxUses == 5
\* What the decorated function or the body of the with-block does.
BodyOutcomes == {"returns", "ValueError", "sqlite3.Error"}
\* What cursor.execute(self.query, self.params) does in __enter__.
QueryOutcomes == {"ok", "sqlite3.OperationalError"}

\* No manager was used yet; no connection is open.
NoUse ==
    [n |-> 0, manager |-> "none", events |-> <<>>, raised |-> "None",
     open |-> 0]
\* The use that starts now.
NewUse(manager) ==
    [conns EXCEPT !.n = @ + 1, !.manager = manager, !.events = <<>>,
                  !.raised = "None"]
\* sqlite3.connect(...), conn.close(), and the body that runs in between.
Connect(c) == [c EXCEPT !.events = Append(@, "connect"), !.open = @ + 1]
Close(c) == [c EXCEPT !.events = Append(@, "close"), !.open = @ - 1]
Body(c, body) ==
    [c EXCEPT !.events = Append(@, "body"),
              !.raised = IF body = "returns" THEN "None" ELSE body]

\* with_db_connection.wrapper: connect, try: func(...), finally: close.
with_db_connection(body) ==
    /\ conns.n < MaxUses
    /\ conns' = Close(Body(Connect(NewUse("with_db_connection")), body))
    /\ UNCHANGED <<messaging_vars, clock, limiter_vars, retry, query_cache,
                   cache_call, txn, generator_vars>>

\* with DatabaseConnection() as conn: __enter__ connects, the body runs,
\* __exit__ closes self.conn and returns False.
DatabaseConnection(body) ==
    /\ conns.n < MaxUses
    /\ conns' = Close(Body(Connect(NewUse("DatabaseConnection")), body))
    /\ UNCHANGED <<messaging_vars, clock, limiter_vars, retry, query_cache,
                   cache_call, txn, generator_vars>>

\* with ExecuteQuery(query, params) as results: __enter__ connects and
\* executes the query; when that raises, the with statement is left without
\* a call of __exit__. Otherwise the body runs and __exit__ closes.
ExecuteQuery(query, body) ==
    /\ conns.n < MaxUses
    /\ LET entered == [Connect(NewUse("ExecuteQuery")) EXCEPT
                          !.events = Append(@, "execute")]
       IN conns' = IF query = "ok"
                   THEN Close(Body(entered, body))
                   ELSE [entered EXCEPT !.raised = query]
    /\ UNCHANGED <<messaging_vars, clock, limiter_vars, retry, query_cache,
                   cache_call, txn, generator_vars>>

InitConnections ==
    /\ MessagingInit
    /\ clock = 0
    /\ LimiterOff /\ RetryOff /\ CacheOff /\ TransactionalOff
    /\ conns = NoUse
    /\ PagerOff /\ BatchOff /\ SeedingOff

NextConnections ==
    \/ \E body \in BodyOutcomes : with_db_connection(body)
    \/ \E body \in BodyOutcomes : DatabaseConnection(body)
    \/ \E query \in QueryOutcomes, body \in BodyOutcomes :
          ExecuteQuery(query, body)

SpecConnections == InitConnections /\ [][NextConnections]_vars

\* --------------------------------------------------------- lazy_paginate
\* python-generators-0x00/2-lazy_paginate.py.
\* Rows of user_data, and the largest page_size explored.
MaxRows == 4
MaxPageSize == 3
\* The tables explored: the rows, each once, in the order in which the
\* server returns them.
RECURSIVE Tables(_)
Tables(n) ==
    IF n = 0 THEN {<<>>}
    ELSE Tables(n - 1) \cup
         {Append(t, r) : t \in {u \in Tables(n - 1) : Len(u) = n - 1},
                         r \in 1..MaxRows}
DistinctRows(t) == \A i, j \in DOMAIN t : t[i] = t[j] => i = j
Min(a, b) == IF a < b THEN a ELSE b

\* SELECT * FROM user_data LIMIT page_size OFFSET offset
paginate_users(table, page_size, offset) ==
    SubSeq(table, offset + 1, Min(offset + page_size, Len(table)))
\* offset += page_size
next_offset_by_one(offset, page_size) == offset + 1
next_offset(offset, page_size) == offset + page_size

\* lazy_paginate(page_size) was called: a generator that has not run yet.
NewPager(table, page_size) ==
    [table |-> table, page_size |-> page_size, offset |-> 0,
     pc |-> "created", fetches |-> 0, pages |-> <<>>, last_page |-> <<>>]

\* next() on the generator: it runs from where it is suspended to the next
\* yield, or to its end.
pager_next ==
    /\ pager.pc \in {"created", "suspended"}
    /\ LET offset == IF pager.pc = "suspended"
                     THEN next_offset(pager.offset, pager.page_size)
                     ELSE pager.offset
           page == paginate_users(pager.table, pager.page_size, offset)
           fetched == [pager EXCEPT !.offset = offset, !.fetches = @ + 1,
                                    !.last_page = page]
       IN pager' = IF page = <<>>
                   THEN [fetched EXCEPT !.pc = "finished"]
                   ELSE [fetched EXCEPT !.pc = "suspended",
                                        !.pages = Append(@, page)]
    /\ UNCHANGED <<messaging_vars, clock, limiter_vars, decorator_vars,
                   batch, seeding>>

\* The consumer leaves its loop early (break) and the generator is closed.
pager_close ==
    /\ pager.pc = "suspended"
    /\ pager' = [pager EXCEPT !.pc = "closed"]
    /\ UNCHANGED <<messaging_vars, clock, limiter_vars, decorator_vars,
                   batch, seeding>>

InitPager ==
    /\ MessagingInit
    /\ clock = 0
    /\ LimiterOff /\ RetryOff /\ CacheOff /\ TransactionalOff
    /\ ConnectionsOff
    /\ \E table \in {t \in Tables(MaxRows) : DistinctRows(t)},
          page_size \in 1..MaxPageSize :
          pager = NewPager(table, page_size)
    /\ BatchOff /\ SeedingOff

NextPager == pager_next \/ pager_close

\* The consumer may stop asking; while it asks, the generator runs on.
SpecPager == InitPager /\ [][NextPager]_vars

\* ------------------------------------------------------ batch_processing
\* python-generators-0x00/1-batch_processing.py.
\* Rows of user_data, and the largest batch_size explored.
MaxUsers == 4
MaxBatchSize == 3
\* The ages stored, on both sides of the threshold.
Ages == {25, 26}
\* The tables explored: row i is the user with user_id i.
UserTables ==
    UNION {[1..n -> Ages] : n \in 0..MaxUsers}
User(table, i) == [user_id |-> i, age |-> table[i]]
\* if user['age'] > 25
over_25_inclusive(user) == user.age >= 25
over_25(user) == user.age > 25
\* cursor.fetchmany(batch_size): the next rows of the result set, at most
\* batch_size of them.
fetchmany(table, position, batch_size) ==
    [i \in 1..(Min(position + batch_size, Len(table)) - position) |->
        User(table, position + i)]

\* batch_processing(batch_size) was called; SELECT * FROM user_data is
\* executed when the generator first runs.
NewBatchRun(table, batch_size) ==
    [table |-> table, batch_size |-> batch_size, position |-> 0,
     pc |-> "fetch", current |-> <<>>, index |-> 0, batches |-> <<>>,
     yielded |-> <<>>]

\* stream_users_in_batches: the next turn of its loop, to the yield of a
\* batch or to the end.
stream_next ==
    /\ batch.pc = "fetch"
    /\ LET fetched == fetchmany(batch.table, batch.position,
                                batch.batch_size)
       IN batch' = IF fetched = <<>>
                   THEN [batch EXCEPT !.pc = "finished", !.current = <<>>]
                   ELSE [batch EXCEPT
                           !.pc = "users",
                           !.current = fetched, !.index = 0,
                           !.position = @ + Len(fetched),
                           !.batches = Append(@, fetched)]
    /\ UNCHANGED <<messaging_vars, clock, limiter_vars, decorator_vars,
                   pager, seeding>>

\* batch_processing: the next turn of the inner loop; the user is yielded
\* if it is over 25.
process_user ==
    /\ batch.pc = "users"
    /\ LET i == batch.index + 1
           user == batch.current[i]
       IN batch' = [batch EXCEPT
              !.index = i,
              !.yielded = IF over_25(user) THEN Append(@, user) ELSE @,
              !.pc = IF i = Len(batch.current) THEN "fetch" ELSE "users"]
    /\ UNCHANGED <<messaging_vars, clock, limiter_vars, decorator_vars,
                   pager, seeding>>

InitBatch ==
    /\ MessagingInit
    /\ clock = 0
    /\ LimiterOff /\ RetryOff /\ CacheOff /\ TransactionalOff
    /\ ConnectionsOff /\ PagerOff
    /\ \E table \in UserTables, batch_size \in 1..MaxBatchSize :
          batch = NewBatchRun(table, batch_size)
    /\ SeedingOff

NextBatch == stream_next \/ process_user

SpecBatch == InitBatch /\ [][NextBatch]_vars

\* ------------------------------------------------------ seed.insert_data
\* python-generators-0x00/seed.py.
\* Rows of the CSV file, and runs of insert_data on one connection.
MaxCsvRows == 2
MaxRuns == 2
\* The user_id, name and age columns of the CSV rows explored; "x" is an
\* age that int() rejects.
UserIds == {"id1", "id2"}
Names == {"n1", "n2"}
CsvAges == {"30", "x"}
CsvRows == [user_id : UserIds, name : Names, age : CsvAges]
CsvFiles == UNION {[1..n -> CsvRows] : n \in 0..MaxCsvRows}
\* The rows user_data may hold before the first run.
StoredTables == {{[user_id |-> u, name |-> "old"] : u \in ids} :
                    ids \in SUBSET UserIds}
\* All steps of a run succeed.
NoFault == 0

\* SELECT user_id FROM user_data WHERE user_id = %s, then fetchone(): the
\* statement sees the committed rows and those of the open transaction.
row_exists(rows, user_id) == \E r \in rows : r.user_id = user_id
\* int(row['age'])
int_fails(age) == age = "x"
\* connection.rollback(), and connection.commit()
rollback_keeps(table, uncommitted) == table \cup uncommitted
rollback(table, uncommitted) == table
commit(table, uncommitted) == table \cup uncommitted

\* The loop over csv_reader from row i on: the rows inserted and how the
\* loop was left. The statements of row fault raise a database error.
RECURSIVE load(_, _, _, _)
load(csv, i, visible, fault) ==
    IF i > Len(csv) THEN [inserted |-> {}, left |-> "end"]
    ELSE IF i = fault THEN [inserted |-> {}, left |-> "mysql.connector.Error"]
    ELSE IF row_exists(visible, csv[i].user_id)
    THEN load(csv, i + 1, visible, fault)
    ELSE IF int_fails(csv[i].age)
    THEN [inserted |-> {}, left |-> "ValueError"]
    ELSE LET row == [user_id |-> csv[i].user_id, name |-> csv[i].name]
             rest == load(csv, i + 1, visible \cup {row}, fault)
         IN [inserted |-> {row} \cup rest.inserted, left |-> rest.left]

\* The connection before the first run: the CSV file and the stored rows.
NewSeeding(csv, table) ==
    [csv |-> csv, table |-> table, uncommitted |-> {}, runs |-> 0,
     fault |-> NoFault, outcome |-> "none"]

\* insert_data(connection, filename). fault = i: a statement of row i
\* raises a database error; fault = Len(csv) + 1: connection.commit() does.
insert_data(fault) ==
    /\ seeding.runs < MaxRuns
    /\ fault \in 0..(Len(seeding.csv) + 1)
    /\ LET open == seeding.uncommitted
           loaded == load(seeding.csv, 1, seeding.table \cup open, fault)
           written == open \cup loaded.inserted
           run == [seeding EXCEPT !.runs = @ + 1, !.fault = fault]
       IN seeding' =
            IF loaded.left = "ValueError"
            THEN [run EXCEPT !.uncommitted = written,
                             !.outcome = "ValueError"]
            ELSE IF loaded.left = "mysql.connector.Error"
                    \/ fault = Len(seeding.csv) + 1
            THEN [run EXCEPT !.table = rollback(seeding.table, written),
                             !.uncommitted = {},
                             !.outcome = "rolled back"]
            ELSE [run EXCEPT !.table = commit(seeding.table, written),
                             !.uncommitted = {},
                             !.outcome = "committed"]
    /\ UNCHANGED <<messaging_vars, clock, limiter_vars, decorator_vars,
                   pager, batch>>

InitSeeding ==
    /\ MessagingInit
    /\ clock = 0
    /\ LimiterOff /\ RetryOff /\ CacheOff /\ TransactionalOff
    /\ ConnectionsOff /\ PagerOff /\ BatchOff
    /\ \E csv \in CsvFiles, table \in StoredTables :
          seeding = NewSeeding(csv, table)

NextSeeding == \E fault \in 0..(MaxCsvRows + 1) : insert_data(fault)

SpecSeeding == InitSeeding /\ [][NextSeeding]_vars

\* ------------------------------------------------------------ the claims
\* The Notification rows that refer to message pk.
NotificationsOf(pk) == {n \in notifications : n.message = pk}

\* C1: after a successful creation of a Message exactly one Notification
\* refers to the new Message; its user is the Message's receiver and its
\* is_read flag is false.
C1_OneNotificationPerCreation ==
    (last.op = "create" /\ last.result = "ok") =>
        /\ last.pk \in DOMAIN msgs
        /\ msgs[last.pk].receiver = last.user
        /\ Cardinality(NotificationsOf(last.pk)) = 1
        /\ \A n \in NotificationsOf(last.pk) :
               n.user = msgs[last.pk].receiver /\ ~n.is_read

\* C1 witness: a second message was just created, from one user to another.
C1_Witness ==
    /\ last.op = "create" /\ last.result = "ok" /\ last.pk = 2
    /\ msgs[2].sender # msgs[2].receiver
    /\ Cardinality(notifications) = 2

\* C2 (as claimed): a save of an existing Message whose content differs
\* from the stored content adds exactly one MessageHistory row for it, with
\* old_content the stored content, and leaves the stored edited flag true.
C2_EditAddsOneHistoryRow ==
    [][ ( /\ last'.op = "save"
          /\ last'.pk \in DOMAIN msgs
          /\ inst[last'.h].content # msgs[last'.pk].content )
        => /\ \E r \in history' \ history :
                  /\ history' = history \cup {r}
                  /\ r.message = last'.pk
                  /\ r.old_content = msgs[last'.pk].content
           /\ last'.pk \in DOMAIN msgs'
           /\ msgs'[last'.pk].edited ]_vars

\* C3: a save of an existing Message whose content equals the stored
\* content creates no MessageHistory row and leaves the stored edited flag
\* as it was.
C3_NoHistoryWithoutContentChange ==
    [][ ( /\ last'.op = "save" /\ last'.result = "ok"
          /\ last'.pk \in DOMAIN msgs
          /\ inst[last'.h].content = msgs[last'.pk].content )
        => /\ history' = history
           /\ last'.pk \in DOMAIN msgs'
           /\ msgs'[last'.pk].edited = msgs[last'.pk].edited
           /\ msgs'[last'.pk].content = msgs[last'.pk].content ]_vars

\* C3 witness: a save that only toggled is_read went through.
C3_Witness ==
    /\ last.op = "save" /\ last.result = "ok"
    /\ last.pk \in DOMAIN msgs
    /\ msgs[last.pk].is_read
    /\ history = {}

\* C4: a save of an existing Message leaves the Notification rows as they
\* were.
C4_NoNotificationOnUpdate ==
    [][ (last'.op = "save" /\ last'.pk \in DOMAIN msgs)
        => notifications' = notifications ]_vars

\* C4 witness: an update that marked one of two messages read was saved.
C4_Witness ==
    /\ last.op = "save" /\ last.result = "ok"
    /\ last.pk \in DOMAIN msgs /\ msgs[last.pk].is_read
    /\ Cardinality(DOMAIN msgs) = 2
    /\ Cardinality(notifications) = 2

\* C5: after delete_user(u) no Message has u as sender or receiver, no
\* Notification has user u and no MessageHistory row has editor u.
C5_UserDeletionCleansUp ==
    (last.op = "delete_user") =>
        /\ \A p \in DOMAIN msgs :
               msgs[p].sender # last.user /\ msgs[p].receiver # last.user
        /\ \A n \in notifications : n.user # last.user
        /\ \A h \in history : h.editor # last.user

\* C5 witness: the first user deletion removed one of two messages and
\* left the other.
C5_Witness ==
    /\ last.op = "delete_user"
    /\ users = Users \ {last.user}
    /\ next_pk = 3
    /\ Cardinality(DOMAIN msgs) = 1
    /\ Cardinality(notifications) = 1

\* The elements of a sequence.
Range(seq) == {seq[k] : k \in 1..Len(seq)}

\* The unread messages a user has received.
UnreadOf(u) == {p \in DOMAIN msgs : msgs[p].receiver = u /\ ~msgs[p].is_read}

C7_InboxReadThroughCache ==
    [][ (last'.op = "inbox") =>
        /\ (last.op = "inbox" /\ last.user = last'.user)
               => (last'.queries = 0 /\ last'.view = last.view)
        /\ IF cache[last'.user].hit
           THEN /\ last'.queries = 0
                /\ last'.view = cache[last'.user].view
                /\ cache' = cache
           ELSE /\ last'.queries = 1
                /\ Range(last'.view) = UnreadOf(last'.user)
                /\ cache'[last'.user] = [hit |-> TRUE, view |-> last'.view]
                /\ \A u \in Users \ {last'.user} : cache'[u] = cache[u]
      ]_vars

\* C7 witness: a second read of a non-empty inbox was served from the cache.
C7_Witness ==
    /\ last.op = "inbox" /\ last.queries = 0
    /\ Len(last.view) >= 1
    /\ Range(last.view) = UnreadOf(last.user)

\* C8: unread_for_user(user) returns, each once, exactly the Messages
\* received by the user whose stored is_read flag is false; a Message that
\* was just saved as read is not in it.
C8_UnreadForUser ==
    [][ (last'.op = "get_unread") =>
          /\ Range(last'.view) = UnreadOf(last'.user)
          /\ Len(last'.view) = Cardinality(UnreadOf(last'.user))
          /\ ( /\ last.op = "save" /\ last.result = "ok"
               /\ inst[last.h].is_read )
             => last.pk \notin Range(last'.view) ]_vars

\* C8 witness: of two messages received by a user one was marked read, and
\* the unread query returned the other.
C8_Witness ==
    /\ last.op = "get_unread"
    /\ Len(last.view) = 1
    /\ \E p \in DOMAIN msgs : msgs[p].receiver = last.user /\ msgs[p].is_read

\* The subtrees of a thread, the thread itself included.
RECURSIVE Subtrees(_)
Subtrees(t) ==
    {t} \cup UNION {Subtrees(t.replies[k]) : k \in 1..Len(t.replies)}

\* The message ids at depth d of a thread.
RECURSIVE IdsAtDepth(_, _)
IdsAtDepth(t, d) ==
    IF d = 0 THEN {t.id}
    ELSE UNION {IdsAtDepth(t.replies[k], d - 1) : k \in 1..Len(t.replies)}

\* The d-th ancestor of a stored message along parent_message (0: none).
RECURSIVE AncestorAt(_, _)
AncestorAt(p, d) ==
    IF d = 0 THEN p
    ELSE IF p \notin DOMAIN msgs THEN 0
    ELSE AncestorAt(msgs[p].parent_message, d - 1)

\* C9: the thread of a stored message m is rooted at m; the replies of
\* every node are, each once, exactly the messages whose parent_message is
\* that node; and the ids at depth d are exactly the messages whose d-th
\* ancestor is m.
C9_ThreadIsTheReplyTree ==
    (last.op = "get_thread" /\ last.pk \in DOMAIN msgs) =>
        /\ last.thread.id = last.pk
        /\ \A t \in Subtrees(last.thread) :
               LET direct == {c \in DOMAIN msgs :
                                 msgs[c].parent_message = t.id}
               IN  /\ {t.replies[k].id : k \in 1..Len(t.replies)} = direct
                   /\ Len(t.replies) = Cardinality(direct)
        /\ \A d \in 0..MaxMessages :
               IdsAtDepth(last.thread, d) =
                   {c \in DOMAIN msgs : AncestorAt(c, d) = last.pk}

\* C9 witness: the thread of the root of a chain parent, reply, nested reply.
C9_Witness ==
    /\ last.op = "get_thread" /\ last.pk = 1
    /\ DOMAIN msgs = {1, 2, 3}
    /\ msgs[2].parent_message = 1 /\ msgs[3].parent_message = 2
    /\ Len(last.thread.replies) = 1
    /\ Len(last.thread.replies[1].replies) = 1
    /\ last.thread.replies[1].replies[1].id = 3

\* C10 (as claimed): in a thread the replies of every node are in ascending
\* order of timestamp.
C10_RepliesOldestFirst ==
    (last.op = "get_thread" /\ last.pk \in DOMAIN msgs) =>
        \A t \in Subtrees(last.thread) :
            \A j, k \in 1..Len(t.replies) :
                j < k => msgs[t.replies[j].id].timestamp
                             < msgs[t.replies[k].id].timestamp

\* C10 (amended): in a thread the replies of every node are in descending
\* order of timestamp, the order of Message.Meta.ordering.
C10_RepliesNewestFirst ==
    (last.op = "get_thread" /\ last.pk \in DOMAIN msgs) =>
        \A t \in Subtrees(last.thread) :
            \A j, k \in 1..Len(t.replies) :
                j < k => msgs[t.replies[j].id].timestamp
                             > msgs[t.replies[k].id].timestamp

\* C10 witness: the thread of a message with two replies.
C10_Witness ==
    /\ last.op = "get_thread" /\ last.pk = 1
    /\ DOMAIN msgs = {1, 2, 3}
    /\ msgs[2].parent_message = 1 /\ msgs[3].parent_message = 1
    /\ Len(last.thread.replies) = 2

\* The depth of a thread: the number of reply levels below its root.
RECURSIVE Depth(_)
Depth(t) ==
    IF t.replies = <<>> THEN 0
    ELSE 1 + (CHOOSE d \in {Depth(t.replies[k]) : k \in 1..Len(t.replies)} :
                 \A k \in 1..Len(t.replies) : Depth(t.replies[k]) <= d)

\* C11 (as claimed): resolving and fully walking the thread of a stored
\* message costs a number of queries bounded by its depth alone: one for the
\* root and at most one batch per level below it, the batch that finds the
\* last level empty included, however many nodes the levels hold; and
\* loading a message with its sender, receiver and direct replies costs
\* exactly 2 queries.
C11_ThreadCostDependsOnDepthOnly ==
    /\ (last.op = "get_thread" /\ last.pk \in DOMAIN msgs) =>
           last.queries <= Depth(last.thread) + 2
    /\ (last.op = "get_object" /\ last.result = "ok") => last.queries = 2

\* The MessageHistory rows that refer to message pk.
HistoryOf(pk) == {r \in history : r.message = pk}

\* C12: every stored Message whose edited flag is true has at least one
\* MessageHistory row.
C12_EditedImpliesHistory ==
    \A p \in DOMAIN msgs : msgs[p].edited => HistoryOf(p) # {}

\* C12, C13: the case both are about, a stored Message whose edited flag is
\* true.
EditedStored == \E p \in DOMAIN msgs : msgs[p].edited

\* C13: the stored edited flag of a Message never goes from true to false
\* while the Message exists.
C13_EditedMonotonic ==
    [][ \A p \in DOMAIN msgs \cap DOMAIN msgs' :
            msgs[p].edited => msgs'[p].edited ]_vars

C15_OnlySenderOrReceiverDeletion ==
    [][ /\ (last'.op # "delete_user") => DOMAIN msgs \subseteq DOMAIN msgs'
        /\ (last'.op = "delete_user") =>
               \A p \in DOMAIN msgs :
                   (msgs[p].sender # last'.user /\ msgs[p].receiver # last'.user)
                       => p \in DOMAIN msgs' ]_vars

\* Message p is sent or received by u, or is a reply, at any depth, to a
\* Message sent or received by u.
InThreadOf(p, u) ==
    \E d \in 0..MaxMessages :
        LET a == AncestorAt(p, d)
        IN  a \in DOMAIN msgs /\ (msgs[a].sender = u \/ msgs[a].receiver = u)

\* C15 (amended): only delete_user removes Messages, and delete_user(u)
\* removes exactly the Messages sent or received by u and the replies, at
\* any depth, to those Messages; every other Message stays as it was.
C15_DeletionCascadesToReplies ==
    [][ /\ (last'.op # "delete_user") => DOMAIN msgs \subseteq DOMAIN msgs'
        /\ (last'.op = "delete_user") =>
               /\ DOMAIN msgs' =
                      {p \in DOMAIN msgs : ~InThreadOf(p, last'.user)}
               /\ \A p \in DOMAIN msgs' : msgs'[p] = msgs[p] ]_vars

\* C15 witness: a user deletion removed a reply that neither was sent nor
\* received by the deleted user (a variable still holds it), and left
\* another message.
C15_Witness ==
    /\ last.op = "delete_user"
    /\ DOMAIN msgs # {}
    /\ \E h \in Handles :
           /\ inst[h].pk # 0 /\ inst[h].pk \notin DOMAIN msgs
           /\ inst[h].parent_message # NullParent
           /\ inst[h].sender # last.user /\ inst[h].receiver # last.user

\* The rows that refer to user u.
RowsOf(u) ==
    [msgs |-> {p \in DOMAIN msgs : msgs[p].sender = u \/ msgs[p].receiver = u},
     notifications |-> {n \in notifications : n.user = u},
     history |-> {r \in history : r.editor = u}]

\* C16: a delete_user that fails at any of its writes leaves the users and
\* the three tables exactly as they were; and in no state has a deleted
\* user Messages, Notifications or MessageHistory rows left.
C16_DeleteUserAtomic ==
    [][ /\ (last'.op = "delete_user_failed") =>
               UNCHANGED <<users, msgs, notifications, history>>
        /\ \A u \in Users \ users' :
               /\ \A p \in DOMAIN msgs' :
                      msgs'[p].sender # u /\ msgs'[p].receiver # u
               /\ \A n \in notifications' : n.user # u
               /\ \A r \in history' : r.editor # u ]_vars

\* C16 witness: the deletion of a user with a message and a notification
\* failed in the post_delete receiver, after the cascade had run, and the
\* user, the message and the notification are stored.
C16_Witness ==
    /\ last.op = "delete_user_failed" /\ last.h >= 1
    /\ last.user \in users
    /\ RowsOf(last.user).msgs # {}
    /\ RowsOf(last.user).notifications # {}

\* C17 (as claimed): a creation whose Notification insert fails stores no
\* Message; a save whose pre_save receiver fails leaves the stored content
\* and edited flag as they were; a save whose UPDATE fails leaves no new
\* MessageHistory row.
C17_DerivedWriteFailureAborts ==
    [][ /\ (last'.op = "create" /\ last'.result = "DatabaseError") =>
               msgs' = msgs
        /\ ( /\ last'.op = "save" /\ last'.result = "AttributeError"
             /\ last'.pk \in DOMAIN msgs ) =>
               /\ last'.pk \in DOMAIN msgs'
               /\ msgs'[last'.pk].content = msgs[last'.pk].content
               /\ msgs'[last'.pk].edited = msgs[last'.pk].edited
        /\ (last'.op = "save" /\ last'.result = "DatabaseError") =>
               history' = history ]_vars

\* C18: every Notification's message and user exist, every MessageHistory
\* row's message and editor exist, and every Message's sender, receiver and
\* non-null parent exist; so the Notifications and MessageHistory rows of a
\* deleted Message are gone with it.
C18_NoOrphanRows ==
    /\ \A n \in notifications : n.message \in DOMAIN msgs /\ n.user \in users
    /\ \A r \in history : r.message \in DOMAIN msgs /\ r.editor \in users
    /\ \A p \in DOMAIN msgs :
           /\ msgs[p].sender \in users
           /\ msgs[p].receiver \in users
           /\ msgs[p].parent_message # NullParent
                  => msgs[p].parent_message \in DOMAIN msgs

\* C18 witness: a user deletion removed one of three messages and left a
\* message and a reply to it, each with its notification.
C18_Witness ==
    /\ last.op = "delete_user"
    /\ next_pk = 4
    /\ Cardinality(DOMAIN msgs) = 2
    /\ Cardinality(notifications) = 2
    /\ \E p \in DOMAIN msgs : msgs[p].parent_message # NullParent

\* C19: no stored Message is its own ancestor, and following parent_message
\* from any stored Message reaches a stored Message whose parent is null.
C19_ParentsAcyclic ==
    \A p \in DOMAIN msgs :
        /\ \A d \in 1..MaxMessages : AncestorAt(p, d) # p
        /\ \E d \in 0..MaxMessages :
               LET a == AncestorAt(p, d)
               IN  a \in DOMAIN msgs /\ msgs[a].parent_message = NullParent

\* C19 witness: a reply to a reply was just created.
C19_Witness ==
    /\ last.op = "create" /\ last.result = "ok" /\ last.pk = 3
    /\ DOMAIN msgs = {1, 2, 3}
    /\ msgs[3].parent_message = 2 /\ msgs[2].parent_message = 1
    /\ msgs[1].parent_message = NullParent

\* C20: no step changes the sender, receiver, parent or timestamp of a
\* stored Message; a save leaves every other Message as it was; a save whose
\* content differs from the stored content (an edit) leaves is_read
\* unchanged; a save whose content equals the stored content (a mark-read)
\* leaves content and edited unchanged.
C20_UpdateFrame ==
    [][ /\ \A p \in DOMAIN msgs \cap DOMAIN msgs' :
               /\ msgs'[p].sender = msgs[p].sender
               /\ msgs'[p].receiver = msgs[p].receiver
               /\ msgs'[p].parent_message = msgs[p].parent_message
               /\ msgs'[p].timestamp = msgs[p].timestamp
        /\ (last'.op = "save" /\ last'.pk \in DOMAIN msgs) =>
               /\ DOMAIN msgs' = DOMAIN msgs
               /\ \A p \in DOMAIN msgs \ {last'.pk} : msgs'[p] = msgs[p]
               /\ IF inst[last'.h].content # msgs[last'.pk].content
                  THEN msgs'[last'.pk].is_read = msgs[last'.pk].is_read
                  ELSE /\ msgs'[last'.pk].content = msgs[last'.pk].content
                       /\ msgs'[last'.pk].edited = msgs[last'.pk].edited
      ]_vars

\* C20 witness: the first of two messages, sent by one user to another, was
\* marked read and saved.
C20_Witness ==
    /\ last.op = "save" /\ last.result = "ok" /\ last.pk = 1
    /\ DOMAIN msgs = {1, 2}
    /\ msgs[1].is_read /\ ~msgs[2].is_read
    /\ msgs[1].sender # msgs[1].receiver

\* C21: a primary key that was handed out and whose Message is no longer
\* stored stays without a Message, and no Notification or MessageHistory
\* row for it appears.
C21_DeletedIsTerminal ==
    [][ \A p \in 1..MaxMessages :
            (p < next_pk /\ p \notin DOMAIN msgs) =>
                /\ p \notin DOMAIN msgs'
                /\ \A n \in notifications' : n.message # p
                /\ \A r \in history' : r.message # p ]_vars

\* C21 witness: the save of a stale copy of a deleted reply, whose sender
\* and receiver still exist, was refused.
C21_Witness ==
    /\ last.op = "save" /\ last.result = "IntegrityError"
    /\ last.pk \notin DOMAIN msgs
    /\ inst[last.h].sender \in users /\ inst[last.h].receiver \in users
    /\ inst[last.h].parent_message # NullParent

C23_ConcurrentCreationsNotifyOnce ==
    \A p \in DOMAIN msgs :
        LET pending == \E pr \in Procs :
                           /\ procs[pr].at = "post_save"
                           /\ procs[pr].instance.pk = p
        IN  /\ Cardinality(NotificationsOf(p)) = IF pending THEN 0 ELSE 1
            /\ \A n \in NotificationsOf(p) : n.user = msgs[p].receiver

\* C23 witness: two requests created messages for the same receiver, the
\* second request's post_save ran before the first's, and both are done.
C23_Witness ==
    /\ \A pr \in Procs : procs[pr].at = "idle"
    /\ {1, 2} \subseteq DOMAIN msgs
    /\ msgs[1].receiver = msgs[2].receiver
    /\ \E n1 \in NotificationsOf(1), n2 \in NotificationsOf(2) :
           n2.id < n1.id

\* C24 (as claimed): a save of a stored Message whose content differs from
\* the stored content goes through and writes a MessageHistory row whose
\* editor is the Message's sender, no authenticated actor being available
\* to the receiver (it has no request); the edit is not dropped.
C24_EditorResolved ==
    [][ ( /\ last'.op = "save"
          /\ last'.pk \in DOMAIN msgs
          /\ inst[last'.h].content # msgs[last'.pk].content )
        => /\ last'.result = "ok"
           /\ last'.pk \in DOMAIN msgs'
           /\ msgs'[last'.pk].content = inst[last'.h].content
           /\ \E r \in history' \ history :
                  /\ r.message = last'.pk
                  /\ r.editor = msgs[last'.pk].sender ]_vars

\* C25 (as claimed): a save of a stored Message leaves the instance's
\* content stored (with one MessageHistory row when it changed the content),
\* so that saving the same instance again finds nothing changed: the second
\* of two successive saves of an instance succeeds and adds no
\* MessageHistory row and no Notification.
C25_HooksIdempotent ==
    [][ /\ (last'.op = "save" /\ last'.pk \in DOMAIN msgs) =>
               /\ last'.pk \in DOMAIN msgs'
               /\ msgs'[last'.pk].content = inst'[last'.h].content
               /\ notifications' = notifications
        /\ ( /\ last.op = "save" /\ last'.op = "save"
             /\ last'.h = last.h /\ last'.pk = last.pk
             /\ last'.pk \in DOMAIN msgs ) =>
               /\ last'.result = "ok"
               /\ history' = history ]_vars

\* The old_content of the MessageHistory rows hs of message pk, in the
\* order of their creation.
RECURSIVE OldContents(_, _)
OldContents(hs, pk) ==
    LET rows == {r \in hs : r.message = pk} IN
    IF rows = {} THEN <<>>
    ELSE LET newest == CHOOSE r \in rows : \A q \in rows : q.id <= r.id
         IN  Append(OldContents(hs \ {newest}, pk), newest.old_content)

\* C28 (as claimed): every save of a stored Message whose content differs
\* from the stored content appends the stored content to the old_content
\* sequence of the Message's history and stores the new content: after
\* edits to c1, ..., cn the sequence is c0, ..., c(n-1).
C28_HistoryRecordsEveryVersion ==
    [][ ( /\ last'.op = "save"
          /\ last'.pk \in DOMAIN msgs
          /\ inst[last'.h].content # msgs[last'.pk].content )
        => /\ OldContents(history', last'.pk) =
                  Append(OldContents(history, last'.pk),
                         msgs[last'.pk].content)
           /\ last'.pk \in DOMAIN msgs'
           /\ msgs'[last'.pk].content = inst[last'.h].content ]_vars

\* C26: an inbox read by u returns no stored Message whose receiver is not
\* u and leaves every other user's cached view as it was; no cached view of
\* a user holds a stored Message received by someone else; and a creation
\* leaves every cached view as it was.
C26_CacheScopedPerUser ==
    [][ /\ (last'.op = "inbox") =>
               /\ \A p \in Range(last'.view) :
                      p \in DOMAIN msgs => msgs[p].receiver = last'.user
               /\ \A u \in Users \ {last'.user} : cache'[u] = cache[u]
        /\ \A u \in Users : \A p \in Range(cache'[u].view) :
               p \in DOMAIN msgs' => msgs'[p].receiver = u
        /\ (last'.op = "create") => cache' = cache ]_vars

\* C26 witness: both users' views are cached, each with a message, and an
\* inbox read was just served.
C26_Witness ==
    /\ last.op = "inbox"
    /\ \A u \in Users : cache[u].hit /\ Len(cache[u].view) >= 1
    /\ Range(cache["u1"].view) \cap Range(cache["u2"].view) = {}

\* A list of primary keys in descending order of the stored timestamps.
NewestFirst(view) ==
    \A j, k \in 1..Len(view) :
        (j < k /\ view[j] \in DOMAIN msgs /\ view[k] \in DOMAIN msgs)
            => msgs[view[j]].timestamp > msgs[view[k]].timestamp

C29_InboxNeverStale ==
    [][ (last'.op = "inbox") =>
            \A p \in Range(last'.view) :
                /\ p \in DOMAIN msgs
                /\ msgs[p].receiver = last'.user
                /\ ~msgs[p].is_read ]_vars

\* C29 (amended): every Message returned by an inbox read of R that is not
\* served from the cache is stored, has receiver R and is unread; an inbox
\* read served from the cache returns the list as it was cached, whose
\* Messages were created for R but may have been marked read or deleted
\* since.
C29_InboxFreshWhenQueried ==
    [][ (last'.op = "inbox") =>
            IF cache[last'.user].hit
            THEN /\ last'.view = cache[last'.user].view
                 /\ \A p \in Range(last'.view) :
                        /\ p < next_pk
                        /\ p \in DOMAIN msgs => msgs[p].receiver = last'.user
            ELSE \A p \in Range(last'.view) :
                     /\ p \in DOMAIN msgs
                     /\ msgs[p].receiver = last'.user
                     /\ ~msgs[p].is_read ]_vars

\* C29 witness: an inbox read served from the cache returned a message that
\* has been marked read or deleted.
C29_Witness ==
    /\ last.op = "inbox" /\ last.queries = 0
    /\ \E p \in Range(last.view) : p \notin DOMAIN msgs \/ msgs[p].is_read

\* The POSTs of ip that were passed to get_response at a time in lo..hi.
PassedIn(ip, lo, hi) ==
    Cardinality({i \in DOMAIN served[ip] :
                    /\ served[ip][i].status = Passed
                    /\ lo <= served[ip][i].at
                    /\ served[ip][i].at <= hi})

\* C31, first part: of the POSTs of one address, at most MAX_MESSAGES that
\* lie within TIME_WINDOW seconds of each other were passed to get_response.
C31_AtMostFivePerWindow ==
    \A ip \in IPs, a \in 0..MaxClock :
        PassedIn(ip, a, a + TIME_WINDOW) <= MAX_MESSAGES
\* C31, second part: a POST that arrives when MAX_MESSAGES POSTs of its
\* address were passed on in the last TIME_WINDOW seconds is answered with
\* 429; a request with another method is passed on and leaves the recorded
\* requests as they were.
C31_FurtherPostsRejected ==
    /\ \A ip \in IPs :
          (/\ served'[ip] # served[ip]
           /\ PassedIn(ip, clock - TIME_WINDOW, clock) >= MAX_MESSAGES)
              => response'.status = TooManyRequests
    /\ (response' # response /\ response'.method # "POST")
          => /\ response'.status = Passed
             /\ UNCHANGED <<request_counts, served>>
\* C31: with requests handled one at a time, at most 5 POSTs of an address
\* are passed on in any window of 60 seconds, every further POST in the
\* window gets 429, and requests with another method are always passed on
\* and never counted.
C31_RateLimitBound ==
    []C31_AtMostFivePerWindow /\ [][C31_FurtherPostsRejected]_vars
\* A sixth POST within the window was answered with 429, after five were
\* passed on, and a POST at the very end of the window was rejected too.
C31_Witness ==
    /\ response.method = "POST"
    /\ response.status = TooManyRequests
    /\ clock = TIME_WINDOW
    /\ PassedIn(response.ip, 0, 0) = MAX_MESSAGES

\* C32: a POST is rejected only if 5 POSTs of its address were passed on
\* during the preceding 60 seconds, however many rejected POSTs the
\* address sent in the meantime.
C32_RejectedOnlyAfterFivePassed ==
    [][\A ip \in IPs :
          (/\ served'[ip] # served[ip]
           /\ response'.status = TooManyRequests)
              => PassedIn(ip, clock - TIME_WINDOW, clock) >= MAX_MESSAGES]_vars

\* Every POST that was handled within the last TIME_WINDOW seconds is still
\* recorded in request_counts once no thread is inside __call__.
C33_NoRecordLost ==
    (\A w \in Workers : workers[w].pc = "idle")
        => \A ip \in IPs :
              Len(request_counts[ip]) >=
                 Cardinality({i \in DOMAIN served[ip] :
                                 served[ip][i].at >= clock - TIME_WINDOW})
\* C33: when threads that share the middleware instance handle POSTs of one
\* address concurrently, no recorded request is lost and at most 5 POSTs per
\* address per 60 seconds are passed on, under every interleaving.
C33_ConcurrentBoundKept ==
    C33_NoRecordLost /\ C31_AtMostFivePerWindow

\* The wrapper was left, by return or by an exception.
RetryDone == retry.pc \in {"returned", "raised"}
\* The invocations made before the last one.
EarlierOutcomes ==
    {retry.outcomes[i] : i \in 1..(Len(retry.outcomes) - 1)}
\* The invocations are at most retries + 1; once the wrapper is left, every
\* invocation but the last raised a database error and was followed by one
\* sleep, the last by none; a return hands back the first success, and an
\* exception is the one the last invocation raised, after retries + 1
\* invocations if it is a database error.
C34_AttemptsAndSleeps ==
    /\ Len(retry.outcomes) <= retry.retries + 1
    /\ RetryDone =>
          /\ Len(retry.outcomes) >= 1
          /\ \A o \in EarlierOutcomes : is_retryable(o)
          /\ retry.sleeps = Len(retry.outcomes) - 1
          /\ retry.result = retry.outcomes[Len(retry.outcomes)]
          /\ retry.pc = "returned" <=> retry.result = "ok"
          /\ (retry.pc = "raised" /\ is_retryable(retry.result)) =>
                /\ Len(retry.outcomes) = retry.retries + 1
                /\ retry.sleeps = retry.retries
                /\ retry.result = retry.last_exception
\* Nothing is invoked and nothing sleeps after the wrapper was left.
C34_NothingAfterTheEnd == ~RetryDone
\* C34: retry_on_failure(retries=n) invokes the function at most n + 1
\* times and always terminates; it returns the first success without a
\* further attempt, raises the last database error after n + 1 failures with
\* exactly n sleeps and none after the last attempt, and lets any other
\* exception propagate at once.
C34_RetryBoundedAndTerminates ==
    /\ []C34_AttemptsAndSleeps
    /\ [][C34_NothingAfterTheEnd]_vars
    /\ <>RetryDone
\* All n + 1 attempts failed with database errors, for n = MaxRetries.
C34_Witness ==
    /\ retry.pc = "raised"
    /\ retry.retries = MaxRetries
    /\ Len(retry.outcomes) = MaxRetries + 1
    /\ retry.sleeps = MaxRetries
    /\ is_retryable(retry.result)

\* A call of the cached function is made in this step.
CacheCallMade == cache_call'.n = cache_call.n + 1
\* The entry stored for the query of the call made in this step.
CalledKey == sha256_hexdigest(cache_call'.query)
\* C35: a call with a query cached less than 5 minutes ago returns the
\* stored result without invoking the function; a call at or after 5
\* minutes removes the expired entry, invokes the function once and, when it
\* returns, stores its result with a new timestamp; a call with cache=False
\* invokes the function and leaves query_cache unchanged.
C35_CacheQuery ==
    [][CacheCallMade =>
         LET q == cache_call'.query
             cached == /\ cache_call'.cache
                       /\ q # ""
                       /\ CalledKey \in DOMAIN query_cache
         IN /\ (cached /\ clock - query_cache[CalledKey][1] < EXPIRY) =>
                  /\ cache_call'.invoked = 0
                  /\ cache_call'.returned = query_cache[CalledKey][2]
                  /\ query_cache' = query_cache
            /\ (cached /\ clock - query_cache[CalledKey][1] >= EXPIRY) =>
                  /\ cache_call'.invoked = 1
                  /\ cache_call'.evicted
                  /\ cache_call'.returned # "raise" =>
                        /\ CalledKey \in DOMAIN query_cache'
                        /\ query_cache'[CalledKey] =
                              <<clock', cache_call'.returned>>
                        /\ query_cache'[CalledKey][1] >
                              query_cache[CalledKey][1]
            /\ ~cache_call'.cache =>
                  /\ cache_call'.invoked = 1
                  /\ query_cache' = query_cache]_vars
\* A call made exactly 5 minutes after its query was cached replaced the
\* entry by the rows the function handed back.
C35_Witness ==
    /\ cache_call.evicted
    /\ cache_call.at - cache_call.cached_time = EXPIRY
    /\ cache_call.invoked = 1
    /\ cache_call.returned = "rows2"
    /\ sha256_hexdigest(cache_call.query) \in DOMAIN query_cache
    /\ query_cache[sha256_hexdigest(cache_call.query)][2] = "rows2"

\* How often an operation appears among the events of the last call.
TxnCount(e) ==
    Cardinality({i \in DOMAIN txn.events : txn.events[i] = e})
C37_ConnectionsClosed ==
    conns.n > 0 => conns.open = 0

\* The pages joined in the order in which they were yielded.
RECURSIVE Flatten(_)
Flatten(pages) ==
    IF pages = <<>> THEN <<>> ELSE Head(pages) \o Flatten(Tail(pages))
\* C38: over an unchanging table lazy_paginate(page_size) yields the rows
\* in table order, each once, in non-empty pages of at most page_size rows;
\* after k pages were consumed exactly k fetches were made; it ends after
\* the first empty page, and then every row was yielded.
C38_LazyPaginate ==
    LET rows == Flatten(pager.pages)
    IN /\ Len(rows) <= Len(pager.table)
       /\ rows = SubSeq(pager.table, 1, Len(rows))
       /\ \A i \in DOMAIN pager.pages :
             /\ pager.pages[i] # <<>>
             /\ Len(pager.pages[i]) <= pager.page_size
       /\ pager.pc \in {"created", "suspended", "closed"} =>
             pager.fetches = Len(pager.pages)
       /\ pager.pc = "finished" =>
             /\ pager.last_page = <<>>
             /\ pager.fetches = Len(pager.pages) + 1
             /\ rows = pager.table
       /\ (pager.pc = "suspended" /\ Len(rows) = Len(pager.table)) =>
             Len(pager.pages) * pager.page_size >= Len(pager.table)
\* The largest table was paged by the largest page size: a full page, a
\* shorter last page, and the empty page that ends the generator.
C38_Witness ==
    /\ pager.pc = "finished"
    /\ Len(pager.table) = MaxRows
    /\ pager.page_size = MaxPageSize
    /\ Len(pager.pages) = 2
    /\ pager.fetches = 3

\* The users of the first n rows that are over 25, in table order.
RECURSIVE Over25(_, _)
Over25(table, n) ==
    IF n = 0 THEN <<>>
    ELSE IF table[n] > 25
         THEN Append(Over25(table, n - 1), [user_id |-> n, age |-> table[n]])
         ELSE Over25(table, n - 1)
\* The rows the inner loop has gone through.
RowsProcessed ==
    IF batch.pc = "users"
    THEN batch.position - Len(batch.current) + batch.index
    ELSE batch.position
\* C39: batch_processing(batch_size) yields exactly the users with age > 25,
\* in table order and each once, whatever batch_size >= 1 is; every batch of
\* stream_users_in_batches is non-empty and has at most batch_size rows.
C39_BatchProcessing ==
    /\ batch.yielded = Over25(batch.table, RowsProcessed)
    /\ batch.pc = "finished" =>
          batch.yielded = Over25(batch.table, Len(batch.table))
    /\ \A i \in DOMAIN batch.batches :
          /\ batch.batches[i] # <<>>
          /\ Len(batch.batches[i]) <= batch.batch_size
\* A table with users on both sides of the threshold was streamed to its
\* end in more than one batch, the last one shorter than batch_size.
C39_Witness ==
    /\ batch.pc = "finished"
    /\ Len(batch.table) = MaxUsers
    /\ batch.batch_size = MaxBatchSize
    /\ Len(batch.batches) = 2
    /\ Len(batch.yielded) = 2
    /\ batch.table[1] = 25
    /\ batch.table[2] = 26

\* The user_ids of a set of rows.
IdsOf(rows) == {r.user_id : r \in rows}
\* A run of insert_data is made in this step.
SeedingRun == seeding'.runs = seeding.runs + 1
\* C40: insert_data inserts a row only if no row with its user_id exists;
\* a run after a run that committed the same CSV leaves the table as it
\* was; a run in which a database error occurs leaves no row of that run
\* (rollback).
C40_IdempotentAllOrNothing ==
    [][SeedingRun =>
         /\ seeding.table \subseteq seeding'.table
         /\ \A r \in seeding'.table \ seeding.table :
               /\ r.user_id \notin IdsOf(seeding.table)
               /\ \E i \in DOMAIN seeding.csv :
                     /\ seeding.csv[i].user_id = r.user_id
                     /\ seeding.csv[i].name = r.name
         /\ Cardinality(IdsOf(seeding'.table)) = Cardinality(seeding'.table)
         /\ (seeding.outcome = "committed"
                /\ seeding'.outcome = "committed") =>
               seeding'.table = seeding.table
         /\ seeding'.fault # NoFault =>
               /\ seeding'.outcome \in {"rolled back", "ValueError"}
               /\ seeding'.table = seeding.table
         /\ seeding'.outcome = "rolled back" =>
               /\ seeding'.table = seeding.table
               /\ seeding'.uncommitted = {}
         /\ (seeding'.fault = NoFault /\ seeding'.outcome = "committed") =>
               IdsOf(seeding'.table) =
                  IdsOf(seeding.table) \cup
                     {seeding.csv[i].user_id : i \in DOMAIN seeding.csv}]_vars
\* A CSV file of two new users was loaded twice: the second run committed
\* and changed nothing.
C40_Witness ==
    /\ seeding.runs = 2
    /\ seeding.outcome = "committed"
    /\ Len(seeding.csv) = 2
    /\ seeding.csv[1].user_id # seeding.csv[2].user_id
    /\ IdsOf(seeding.table) = UserIds
    /\ \A r \in seeding.table : r.name # "old"
====
